---- MODULE Spec2Model ----
(***************************************************************************)
(* A model of the server side publish engine (ServerSidePublishEngine) of  *)
(* node-opcua: the queue of pending publish requests, the queue of stashed *)
(* publish responses, the subscription map, the list of closed             *)
(* subscriptions still holding notifications, and the operations that move *)
(* requests, responses and subscriptions between them.                     *)
(*                                                                         *)
(* The engine is single threaded: every public operation runs to its end   *)
(* before the next one starts, so each operation is one action.  An        *)
(* operation is written as a function from a "world" (the engines, the     *)
(* subscriptions, the callback counters and the trace of the operation) to *)
(* the world it leaves, so that the calls an operation makes compose in    *)
(* the order the code makes them.                                          *)
(***************************************************************************)
EXTENDS Integers, Sequences, FiniteSets, TLC

----------------------------------------------------------------------------
(* Bounds of the model *)

\* number of publish engines (a transfer needs a source and a destination)
NumEngines == 2
\* number of subscriptions
NumSubs == 2
\* number of publish requests submitted over a run
MaxRequests == 3
\* options.maxPublishRequestInQueue of every engine of the model
MaxPublishRequestInQueue == 2
\* notifications a subscription may hold that are not sent yet
MaxPending == 2
\* highest sequence number a subscription hands out
MaxSeq == 2
\* the clock (Date.getTime) runs from 1 to MaxTime
MaxTime == 3
\* largest requestHeader.timeoutHint
MaxTimeoutHint == 1
\* subscription acknowledgements carried by one publish request
MaxAcks == 1
\* largest priority of a subscription
MaxPriority == 1
\* lifetime of a subscription, in publishing intervals
MaxLifetime == 2
\* longest list of acknowledgements whose results are compared entry by entry
MaxAckList == 2

Engines == 1..NumEngines
SubIds == 1..NumSubs
ReqIds == 1..MaxRequests
NoEngine == 0
NoSub == 0

----------------------------------------------------------------------------
(* Status codes *)

Good == "Good"
BadSubscriptionIdInvalid == "BadSubscriptionIdInvalid"
BadSessionClosed == "BadSessionClosed"
BadNoSubscription == "BadNoSubscription"
BadTooManyPublishRequests == "BadTooManyPublishRequests"
BadTimeout == "BadTimeout"
BadSecureChannelClosed == "BadSecureChannelClosed"
BadSequenceNumberUnknown == "BadSequenceNumberUnknown"

\* SubscriptionState
CREATING == "Creating"
NORMAL == "Normal"
LATE == "Late"
KEEPALIVE == "KeepAlive"
CLOSED == "Closed"

VARIABLES
    eng,      \* eng[e]: the fields of engine e
    sub,      \* sub[s]: the fields of subscription s
    cbCount,  \* cbCount[r]: how many times the callback of request r was invoked
    nextReq,  \* the id of the next publish request
    now,      \* the clock, in ms
    err,      \* the assertion the last operation failed on, or "none"
    fs,       \* a perform_findServersRequest call: its client and its callback
    mi,       \* a ClientMonitoredItem and the subscription it registers with
    sm,       \* a UAStateMachine: its current state and the events it raised
    arr,      \* an extension object array: its value and its component nodes
    reg,      \* the ObjectRegistry instances and the objects they count
    nid       \* a NodeId, the bytes it is encoded to and the NodeId decoded

vars == <<eng, sub, cbCount, nextReq, now, err, fs, mi, sm, arr, reg, nid>>

\* the variables of the publish engine and of its subscriptions
engineVars == <<eng, sub, cbCount, nextReq, now, err>>

\* the variables of the other components
others == <<fs, mi, sm, arr, reg, nid>>

\* a component that has not been constructed
NotCreated == [pc |-> "none"]

OthersNotCreated ==
    /\ fs = NotCreated
    /\ mi = NotCreated
    /\ sm = NotCreated
    /\ arr = NotCreated
    /\ reg = NotCreated
    /\ nid = NotCreated

----------------------------------------------------------------------------
(* Helpers on sequences *)

RECURSIVE SeqToSet(_)
SeqToSet(q) == IF q = <<>> THEN {} ELSE {Head(q)} \cup SeqToSet(Tail(q))

RECURSIVE SelectSeqBy(_, _)
\* the elements of q whose index is in keep, in their order
SelectSeqBy(q, keep) ==
    IF q = <<>> THEN <<>>
    ELSE LET n == Len(q)
             front == SelectSeqBy(SubSeq(q, 1, n - 1), keep)
         IN IF n \in keep THEN Append(front, q[n]) ELSE front

QueueIds(q) == {q[i].id : i \in 1..Len(q)}

\* requestHeader.requestHandle of request r
RequestHandle(r) == 40 + r

----------------------------------------------------------------------------
(* The engine *)

\* constructor
NewEngine ==
    [queue |-> <<>>,            \* _publish_request_queue
     responses |-> <<>>,        \* _publish_response_queue
     subs |-> {},               \* _subscriptions (the ids it maps)
     closed |-> <<>>,           \* _closed_subscriptions
     isSessionClosed |-> FALSE]

pendingPublishRequestCount(w, e) == Len(w.eng[e].queue)

subscriptionCount(w, e) == Cardinality(w.eng[e].subs)

getSubscriptionById(w, e, id) == IF id \in w.eng[e].subs THEN id ELSE NoSub

\* an assertion of the code: the operation stops where it fails
Fail(w, what) == IF w.err = "none" THEN [w EXCEPT !.err = what] ELSE w

\* new subscription_service.PublishResponse({responseHeader: {serviceResult}})
StatusResponse(statusCode) ==
    [serviceResult |-> statusCode, subscriptionId |-> NoSub, sequenceNumber |-> 0,
     availableSequenceNumbers |-> <<>>, moreNotifications |-> FALSE,
     notificationData |-> "none"]

\* the response as the callback receives it
Delivery(w, e, publishData, response) ==
    [req |-> publishData.id,
     engine |-> e,
     requestHandle |-> publishData.requestHandle,
     results |-> publishData.results,
     serviceResult |-> response.serviceResult,
     subscriptionId |-> response.subscriptionId,
     sequenceNumber |-> response.sequenceNumber,
     availableSequenceNumbers |-> response.availableSequenceNumbers,
     moreNotifications |-> response.moreNotifications,
     notificationData |-> response.notificationData,
     \* was the request still in the queue when its callback ran
     queued |-> publishData.id \in QueueIds(w.eng[e].queue)]

\* a delivery that leaves the response as it was built: no request handle and
\* no acknowledgement results
send_response_for_request_unstamped(w, e, publishData, response) ==
    [w EXCEPT !.cb[publishData.id] = @ + 1,
              !.log = Append(@, [Delivery(w, e, publishData, response)
                                    EXCEPT !.requestHandle = 0, !.results = <<>>])]

send_response_for_request(w, e, publishData, response) ==
    [w EXCEPT !.cb[publishData.id] = @ + 1,
              !.log = Append(@, Delivery(w, e, publishData, response))]

send_error_for_request(w, e, publishData, statusCode) ==
    send_response_for_request(w, e, publishData, StatusResponse(statusCode))

RECURSIVE SendErrorToAll(_, _, _, _)
\* _publish_request_queue.forEach(send_error_for_request)
SendErrorToAll(w, e, q, statusCode) ==
    IF q = <<>> THEN w
    ELSE SendErrorToAll(send_error_for_request(w, e, Head(q), statusCode),
                        e, Tail(q), statusCode)

\* a cancellation that answers the requests and leaves them in the queue
_cancelPendingPublishRequest_keep(w, e, statusCode) ==
    SendErrorToAll(w, e, w.eng[e].queue, statusCode)

_cancelPendingPublishRequest(w, e, statusCode) ==
    LET w1 == SendErrorToAll(w, e, w.eng[e].queue, statusCode)
    IN [w1 EXCEPT !.eng[e].queue = <<>>]

cancelPendingPublishRequest(w, e) ==
    IF subscriptionCount(w, e) # 0 THEN Fail(w, "cancelPendingPublishRequest")
    ELSE _cancelPendingPublishRequest(w, e, BadNoSubscription)

\* the eviction with its threshold off by one
_handle_too_many_requests_late(w, e) ==
    IF pendingPublishRequestCount(w, e) > MaxPublishRequestInQueue + 1
    THEN send_error_for_request([w EXCEPT !.eng[e].queue = Tail(@)], e,
                                Head(w.eng[e].queue), BadTooManyPublishRequests)
    ELSE w

\* an eviction that drops the oldest request without answering it
_handle_too_many_requests_silent(w, e) ==
    IF pendingPublishRequestCount(w, e) > MaxPublishRequestInQueue
    THEN [w EXCEPT !.eng[e].queue = Tail(@)]
    ELSE w

\* an eviction that rejects the request just enqueued
_handle_too_many_requests_newest(w, e) ==
    IF pendingPublishRequestCount(w, e) > MaxPublishRequestInQueue
    THEN LET n == Len(w.eng[e].queue)
         IN send_error_for_request(
                [w EXCEPT !.eng[e].queue = SubSeq(@, 1, n - 1)], e,
                w.eng[e].queue[n], BadTooManyPublishRequests)
    ELSE w

_handle_too_many_requests(w, e) ==
    IF pendingPublishRequestCount(w, e) > MaxPublishRequestInQueue
    THEN IF pendingPublishRequestCount(w, e) # MaxPublishRequestInQueue + 1
         THEN Fail(w, "_handle_too_many_requests")
         ELSE LET publishData == Head(w.eng[e].queue)
                  w1 == [w EXCEPT !.eng[e].queue = Tail(@)]
              IN send_error_for_request(w1, e, publishData, BadTooManyPublishRequests)
    ELSE w

\* param: [subscriptionId, sequenceNumber, notificationData, moreNotifications]
\* the PublishResponse send_notification_message builds
\* a response that lists what the subscription retains, attached or not
NotificationResponse_unattached(w, e, param) ==
    [serviceResult |-> Good,
     subscriptionId |-> param.subscriptionId,
     sequenceNumber |-> param.sequenceNumber,
     availableSequenceNumbers |-> w.sub[param.subscriptionId].retained,
     moreNotifications |-> param.moreNotifications,
     notificationData |-> param.notificationData]

NotificationResponse(w, e, param) ==
    LET subscription == getSubscriptionById(w, e, param.subscriptionId)
    IN [serviceResult |-> Good,
        subscriptionId |-> param.subscriptionId,
        sequenceNumber |-> param.sequenceNumber,
        availableSequenceNumbers |->
            IF subscription # NoSub THEN w.sub[subscription].retained ELSE <<>>,
        moreNotifications |-> param.moreNotifications,
        notificationData |-> param.notificationData]

\* a forced send that stashes its response even when a request is waiting
send_notification_message_stash(w, e, param, force) ==
    IF ~(pendingPublishRequestCount(w, e) > 0 \/ force)
    THEN Fail(w, "send_notification_message")
    ELSE IF pendingPublishRequestCount(w, e) = 0 \/ force
    THEN [w EXCEPT !.eng[e].responses = Append(@, NotificationResponse(w, e, param))]
    ELSE send_response_for_request([w EXCEPT !.eng[e].queue = Tail(@)], e,
                                   Head(w.eng[e].queue),
                                   NotificationResponse(w, e, param))

\* a send that answers the request enqueued last
send_notification_message_newest(w, e, param, force) ==
    IF ~(pendingPublishRequestCount(w, e) > 0 \/ force)
    THEN Fail(w, "send_notification_message")
    ELSE IF pendingPublishRequestCount(w, e) = 0
    THEN [w EXCEPT !.eng[e].responses = Append(@, NotificationResponse(w, e, param))]
    ELSE LET n == Len(w.eng[e].queue)
         IN send_response_for_request(
                [w EXCEPT !.eng[e].queue = SubSeq(@, 1, n - 1)], e,
                w.eng[e].queue[n], NotificationResponse(w, e, param))

send_notification_message(w, e, param, force) ==
    IF ~(pendingPublishRequestCount(w, e) > 0 \/ force)
    THEN Fail(w, "send_notification_message")
    ELSE LET response == NotificationResponse(w, e, param)
         IN IF pendingPublishRequestCount(w, e) = 0
            THEN [w EXCEPT !.eng[e].responses = Append(@, response)]
            ELSE LET publishData == Head(w.eng[e].queue)
                     w1 == [w EXCEPT !.eng[e].queue = Tail(@)]
                 IN send_response_for_request(w1, e, publishData, response)

\* TRUE when a stashed response exists (the value the code returns)
HasPendingPublishResponse(w, e) == Len(w.eng[e].responses) # 0

\* a delivery of the oldest stashed response that leaves it in the stash
_process_pending_publish_response_kept(w, e, publishData) ==
    IF Len(w.eng[e].responses) = 0 THEN w
    ELSE send_response_for_request(w, e, publishData, Head(w.eng[e].responses))

_process_pending_publish_response(w, e, publishData) ==
    IF Len(w.eng[e].responses) = 0 THEN w
    ELSE IF Len(w.eng[e].queue) # 0
         THEN Fail(w, "_process_pending_publish_response")
         ELSE LET response == Head(w.eng[e].responses)
                  w1 == [w EXCEPT !.eng[e].responses = Tail(@)]
              IN send_response_for_request(w1, e, publishData, response)

----------------------------------------------------------------------------
(* The subscription, as the engine uses it.  lib/server/Subscription is    *)
(* described by the specification (sections 3, 4.1, 4.2 and 6).            *)

\* a subscription before it is attached
NewSubscription(priority, publishingEnabled) ==
    [state |-> CREATING,
     publishEngine |-> NoEngine,
     priority |-> priority,
     publishingEnabled |-> publishingEnabled,
     messageSent |-> FALSE,
     pending |-> 0,             \* notifications produced and not sent yet
     retained |-> <<>>,         \* sequence numbers sent and not acknowledged
     nextSequenceNumber |-> 1,
     timeToExpiration |-> MaxLifetime]

Call(w, name, s) == [w EXCEPT !.calls = Append(@, <<name, s>>)]

hasPendingNotifications(w, s) == w.sub[s].pending > 0

getAvailableSequenceNumbers(w, s) == w.sub[s].retained

\* NotificationRing.ack: the status it returns
AckStatus(w, s, sequenceNumber) ==
    IF sequenceNumber \in SeqToSet(w.sub[s].retained)
    THEN Good ELSE BadSequenceNumberUnknown

\* NotificationRing.ack: the ring it leaves
acknowledgeNotification(w, s, sequenceNumber) ==
    IF AckStatus(w, s, sequenceNumber) = Good
    THEN [w EXCEPT !.sub[s].retained =
              SelectSeqBy(@, {i \in 1..Len(@) : @[i] > sequenceNumber})]
    ELSE w

resetLifeTimeCounter(w, s) ==
    Call([w EXCEPT !.sub[s].timeToExpiration = MaxLifetime], "resetLifeTimeCounter", s)

resendInitialValues(w, s) == Call(w, "resendInitialValues", s)

\* the subscription sends its oldest pending notification through its engine
_publish_pending_notifications(w, s) ==
    LET e == w.sub[s].publishEngine
        sequenceNumber == w.sub[s].nextSequenceNumber
        w1 == [w EXCEPT !.sub[s].pending = @ - 1,
                        !.sub[s].nextSequenceNumber = @ + 1,
                        !.sub[s].retained = Append(@, sequenceNumber),
                        !.sub[s].messageSent = TRUE,
                        !.sub[s].timeToExpiration = MaxLifetime]
    IN send_notification_message(
           Call(w1, "_publish_pending_notifications", s), e,
           [subscriptionId |-> s, sequenceNumber |-> sequenceNumber,
            notificationData |-> "DataChange",
            moreNotifications |-> w1.sub[s].pending > 0],
           FALSE)

\* the value send_keep_alive_response returns
KeepAliveSent(w, e, subscriptionId) ==
    /\ getSubscriptionById(w, e, subscriptionId) # NoSub
    /\ pendingPublishRequestCount(w, e) # 0

\* a keep-alive that announces the sequence number after the next one
send_keep_alive_response_skip(w, e, subscriptionId, future_sequence_number) ==
    IF getSubscriptionById(w, e, subscriptionId) = NoSub THEN w
    ELSE IF pendingPublishRequestCount(w, e) = 0 THEN w
    ELSE send_notification_message(w, e,
             [subscriptionId |-> subscriptionId,
              sequenceNumber |-> future_sequence_number + 1,
              notificationData |-> "KeepAlive",
              moreNotifications |-> FALSE],
             FALSE)

\* a keep-alive that is sent, or stashed, whether or not a request is pending
send_keep_alive_response_forced(w, e, subscriptionId, future_sequence_number) ==
    IF getSubscriptionById(w, e, subscriptionId) = NoSub THEN w
    ELSE send_notification_message(w, e,
             [subscriptionId |-> subscriptionId,
              sequenceNumber |-> future_sequence_number,
              notificationData |-> "KeepAlive",
              moreNotifications |-> FALSE],
             TRUE)

send_keep_alive_response(w, e, subscriptionId, future_sequence_number) ==
    IF getSubscriptionById(w, e, subscriptionId) = NoSub THEN w
    ELSE IF pendingPublishRequestCount(w, e) = 0 THEN w
    ELSE send_notification_message(w, e,
             [subscriptionId |-> subscriptionId,
              sequenceNumber |-> future_sequence_number,
              notificationData |-> "KeepAlive",
              moreNotifications |-> FALSE],
             FALSE)

\* the subscription emits its next notification, or a keep-alive
process_subscription(w, s) ==
    LET e == w.sub[s].publishEngine
        w0 == Call(w, "process_subscription", s)
    IN IF w0.sub[s].publishingEnabled /\ hasPendingNotifications(w0, s)
       THEN LET w1 == _publish_pending_notifications(w0, s)
            IN [w1 EXCEPT !.sub[s].state = NORMAL]
       ELSE IF KeepAliveSent(w0, e, s)
            THEN LET w1 == send_keep_alive_response(w0, e, s, w0.sub[s].nextSequenceNumber)
                 IN [w1 EXCEPT !.sub[s].state = NORMAL,
                               !.sub[s].messageSent = TRUE,
                               !.sub[s].timeToExpiration = MaxLifetime]
            ELSE w0

\* StatusChangeNotification(GoodSubscriptionTransferred) to the engine it leaves
notifyTransfer(w, s) ==
    LET e == w.sub[s].publishEngine
        sequenceNumber == w.sub[s].nextSequenceNumber
        w1 == Call([w EXCEPT !.sub[s].nextSequenceNumber = @ + 1], "notifyTransfer", s)
    IN send_notification_message(w1, e,
           [subscriptionId |-> s, sequenceNumber |-> sequenceNumber,
            notificationData |-> "StatusChange",
            moreNotifications |-> FALSE],
           TRUE)

----------------------------------------------------------------------------
(* Feeding late and closed subscriptions *)

\* the value _feed_closed_subscription returns
FeedClosedProcessed(w, e) ==
    /\ pendingPublishRequestCount(w, e) # 0
    /\ w.eng[e].closed # <<>>
    /\ hasPendingNotifications(w, Head(w.eng[e].closed))

\* a feed that reads the head of the closed-drain list and leaves it there
_feed_closed_subscription_peek(w, e) ==
    IF pendingPublishRequestCount(w, e) = 0 THEN w
    ELSE IF w.eng[e].closed = <<>> THEN w
    ELSE LET closed_subscription == Head(w.eng[e].closed)
         IN IF hasPendingNotifications(w, closed_subscription)
            THEN _publish_pending_notifications(w, closed_subscription)
            ELSE w

_feed_closed_subscription(w, e) ==
    IF pendingPublishRequestCount(w, e) = 0 THEN w
    ELSE IF w.eng[e].closed = <<>> THEN w
    ELSE LET closed_subscription == Head(w.eng[e].closed)
             w1 == [w EXCEPT !.eng[e].closed = Tail(@)]
         IN IF hasPendingNotifications(w1, closed_subscription)
            THEN _publish_pending_notifications(w1, closed_subscription)
            ELSE w1

RECURSIVE FeedClosedWhile(_, _)
\* while (self._feed_closed_subscription()) { }
FeedClosedWhile(w, e) ==
    IF FeedClosedProcessed(w, e)
    THEN FeedClosedWhile(_feed_closed_subscription(w, e), e)
    ELSE _feed_closed_subscription(w, e)

RECURSIVE SetToSortedSeq(_)
\* the values of _subscriptions in the order _.filter visits integer keys
SetToSortedSeq(S) ==
    IF S = {} THEN <<>>
    ELSE LET m == CHOOSE x \in S : \A y \in S : x <= y
         IN <<m>> \o SetToSortedSeq(S \ {m})

\* _(list).sortBy("timeToExpiration")[0]: the sort is stable
FirstByTimeToExpiration(w, list) ==
    LET best == CHOOSE i \in 1..Len(list) :
                    \A j \in 1..Len(list) :
                        \/ w.sub[list[i]].timeToExpiration < w.sub[list[j]].timeToExpiration
                        \/ /\ w.sub[list[i]].timeToExpiration = w.sub[list[j]].timeToExpiration
                           /\ i <= j
    IN list[best]

findSubscriptionWaitingForFirstPublish(w, e) ==
    LET subscriptions_waiting_for_first_reply ==
            SetToSortedSeq({s \in w.eng[e].subs :
                              ~w.sub[s].messageSent /\ w.sub[s].state = LATE})
    IN IF Len(subscriptions_waiting_for_first_reply) # 0
       THEN FirstByTimeToExpiration(w, subscriptions_waiting_for_first_reply)
       ELSE NoSub

findLateSubscriptions(w, e) ==
    SetToSortedSeq({s \in w.eng[e].subs :
                      w.sub[s].state = LATE /\ w.sub[s].publishingEnabled})

\* the comparator returns a boolean: true is 1, false is 0, never negative
compare_subscriptions(w, s1, s2) ==
    IF w.sub[s1].priority = w.sub[s2].priority
    THEN w.sub[s1].timeToExpiration < w.sub[s2].timeToExpiration
    ELSE w.sub[s1].priority > w.sub[s2].priority

RECURSIVE InsertByCompare(_, _, _)
\* one pass of an insertion sort: elements with comparefn(tmp, element) > 0 move up
InsertByCompare(w, a, element) ==
    IF a = <<>> THEN <<element>>
    ELSE LET tmp == a[Len(a)]
         IN IF compare_subscriptions(w, tmp, element)
            THEN Append(InsertByCompare(w, SubSeq(a, 1, Len(a) - 1), element), tmp)
            ELSE Append(a, element)

RECURSIVE InsertionSort(_, _)
InsertionSort(w, a) ==
    IF a = <<>> THEN <<>>
    ELSE InsertByCompare(w, InsertionSort(w, SubSeq(a, 1, Len(a) - 1)), a[Len(a)])

\* Array.prototype.sort with a comparator that never answers "less": an engine
\* that sorts short arrays by insertion orders them, an engine that merges
\* runs it finds by "comparefn(b, a) < 0" sees one ascending run and leaves
\* the array as it is.
SortImpls == {"insertion", "runs"}

SortWith(w, a, sortImpl) ==
    IF sortImpl = "insertion" THEN InsertionSort(w, a) ELSE a

findLateSubscriptionSortedByPriority(w, e, sortImpl) ==
    LET late_subscriptions == SortWith(w, findLateSubscriptions(w, e), sortImpl)
    IN IF Len(late_subscriptions) = 0 THEN NoSub
       ELSE late_subscriptions[Len(late_subscriptions)]

\* a feed that looks at the priorities before the subscriptions never served
StarvingSubscription_priorityFirst(w, e, sortImpl) ==
    IF pendingPublishRequestCount(w, e) = 0 THEN NoSub
    ELSE IF findLateSubscriptionSortedByPriority(w, e, sortImpl) # NoSub
         THEN findLateSubscriptionSortedByPriority(w, e, sortImpl)
         ELSE findSubscriptionWaitingForFirstPublish(w, e)

\* the subscription _feed_late_subscription processes, or NoSub
StarvingSubscription(w, e, sortImpl) ==
    IF pendingPublishRequestCount(w, e) = 0 THEN NoSub
    ELSE IF findSubscriptionWaitingForFirstPublish(w, e) # NoSub
         THEN findSubscriptionWaitingForFirstPublish(w, e)
         ELSE findLateSubscriptionSortedByPriority(w, e, sortImpl)

_feed_late_subscription(w, e, sortImpl) ==
    LET starving_subscription == StarvingSubscription(w, e, sortImpl)
    IN IF starving_subscription # NoSub
       THEN process_subscription(w, starving_subscription)
       ELSE w

----------------------------------------------------------------------------
(* Publish requests *)

RECURSIVE AckResults_anyEngine(_, _, _)
\* results that look the subscription up without asking the engine's map
AckResults_anyEngine(w, e, acks) ==
    IF acks = <<>> THEN <<>>
    ELSE LET a == Head(acks)
         IN <<AckStatus(w, a.subscriptionId, a.sequenceNumber)>>
            \o AckResults_anyEngine(
                   acknowledgeNotification(w, a.subscriptionId, a.sequenceNumber),
                   e, Tail(acks))

RECURSIVE AckResults(_, _, _)
\* the results process_subscriptionAcknowledgements returns
AckResults(w, e, acks) ==
    IF acks = <<>> THEN <<>>
    ELSE LET a == Head(acks)
             subscription == getSubscriptionById(w, e, a.subscriptionId)
         IN IF subscription = NoSub
            THEN <<BadSubscriptionIdInvalid>> \o AckResults(w, e, Tail(acks))
            ELSE <<AckStatus(w, subscription, a.sequenceNumber)>>
                 \o AckResults(acknowledgeNotification(w, subscription, a.sequenceNumber),
                               e, Tail(acks))

RECURSIVE process_subscriptionAcknowledgements(_, _, _)
\* the subscriptions process_subscriptionAcknowledgements leaves
process_subscriptionAcknowledgements(w, e, acks) ==
    IF acks = <<>> THEN w
    ELSE LET a == Head(acks)
             subscription == getSubscriptionById(w, e, a.subscriptionId)
         IN IF subscription = NoSub
            THEN process_subscriptionAcknowledgements(w, e, Tail(acks))
            ELSE process_subscriptionAcknowledgements(
                     acknowledgeNotification(w, subscription, a.sequenceNumber),
                     e, Tail(acks))

\* request.timeout_time as prepare_timeout_info sets it
prepare_timeout_info(received_time, timeoutHint) ==
    IF timeoutHint > 0 THEN received_time + timeoutHint ELSE 0

\* publishData = { request, results: subscriptionAckResults, callback };
\* request.timeout_time is undefined until prepare_timeout_info runs
PublishData(w, e, request) ==
    [id |-> request.id, requestHandle |-> request.requestHandle,
     results |-> AckResults(w, e, request.subscriptionAcknowledgements),
     timeout_time |-> 0]

\* a branch that enqueues the request before it looks at the closed list
AdmitWithoutSubscription_enqueue(w0, e, publishData) ==
    LET w1 == [w0 EXCEPT !.eng[e].queue = Append(@, publishData)]
    IN IF /\ Len(w0.eng[e].closed) > 0
          /\ hasPendingNotifications(w0, Head(w0.eng[e].closed))
       THEN _feed_closed_subscription(w1, e)
       ELSE send_error_for_request(w1, e, publishData, BadNoSubscription)

\* the branch "subscriptionCount === 0" of _on_PublishRequest
AdmitWithoutSubscription(w0, e, publishData) ==
    IF /\ Len(w0.eng[e].closed) > 0
       /\ hasPendingNotifications(w0, Head(w0.eng[e].closed))
    THEN LET verif == Len(w0.eng[e].queue)
             w1 == [w0 EXCEPT !.eng[e].queue = Append(@, publishData)]
             processed == FeedClosedProcessed(w1, e)
             w2 == _feed_closed_subscription(w1, e)
         IN IF w2.err # "none" THEN w2
            ELSE IF verif # Len(w2.eng[e].queue) THEN Fail(w2, "verif")
            ELSE IF ~processed THEN Fail(w2, "processed")
            ELSE w2
    ELSE send_error_for_request(w0, e, publishData, BadNoSubscription)

\* the last branch of _on_PublishRequest, up to the two feeds
AdmitAndFeed(w0, e, publishData, timeoutHint, current_time, sortImpl) ==
    LET timed == [publishData EXCEPT !.timeout_time =
                      prepare_timeout_info(current_time, timeoutHint)]
        w1 == [w0 EXCEPT !.eng[e].queue = Append(@, timed)]
        w2 == _feed_late_subscription(w1, e, sortImpl)
    IN IF w2.err # "none" THEN w2 ELSE _feed_closed_subscription(w2, e)

\* the last branch of _on_PublishRequest
\* an admission that enforces the limit before it feeds the subscriptions
AdmitWithSubscriptions_evictFirst(w0, e, publishData, timeoutHint, current_time, sortImpl) ==
    LET timed == [publishData EXCEPT !.timeout_time =
                      prepare_timeout_info(current_time, timeoutHint)]
        w1 == [w0 EXCEPT !.eng[e].queue = Append(@, timed)]
        w2 == _handle_too_many_requests(w1, e)
        w3 == IF w2.err # "none" THEN w2 ELSE _feed_late_subscription(w2, e, sortImpl)
    IN IF w3.err # "none" THEN w3 ELSE _feed_closed_subscription(w3, e)

AdmitWithSubscriptions(w0, e, publishData, timeoutHint, current_time, sortImpl) ==
    LET w3 == AdmitAndFeed(w0, e, publishData, timeoutHint, current_time, sortImpl)
    IN IF w3.err # "none" THEN w3 ELSE _handle_too_many_requests(w3, e)

\* request: [id, requestHandle, subscriptionAcknowledgements, timeoutHint]
\* an admission that does not look at isSessionClosed
_on_PublishRequest_ignoreClose(w, e, request, current_time, sortImpl) ==
    LET w0 == process_subscriptionAcknowledgements(w, e, request.subscriptionAcknowledgements)
        publishData == PublishData(w, e, request)
    IN IF HasPendingPublishResponse(w0, e)
       THEN _process_pending_publish_response(w0, e, publishData)
       ELSE IF subscriptionCount(w0, e) = 0
       THEN AdmitWithoutSubscription(w0, e, publishData)
       ELSE AdmitWithSubscriptions(w0, e, publishData, request.timeoutHint,
                                   current_time, sortImpl)

_on_PublishRequest(w, e, request, current_time, sortImpl) ==
    LET w0 == process_subscriptionAcknowledgements(w, e, request.subscriptionAcknowledgements)
        publishData == PublishData(w, e, request)
    IN IF HasPendingPublishResponse(w0, e)
       THEN _process_pending_publish_response(w0, e, publishData)
       ELSE IF w0.eng[e].isSessionClosed
       THEN send_error_for_request(w0, e, publishData, BadSessionClosed)
       ELSE IF subscriptionCount(w0, e) = 0
       THEN AdmitWithoutSubscription(w0, e, publishData)
       ELSE AdmitWithSubscriptions(w0, e, publishData, request.timeoutHint,
                                   current_time, sortImpl)

\* data.request.timeout_time ? timeout_time < current_time : false
timeout_filter(data, current_time) ==
    IF data.timeout_time = 0 THEN FALSE ELSE data.timeout_time < current_time

RECURSIVE SendTimeoutToAll(_, _, _)
SendTimeoutToAll(w, e, q) ==
    IF q = <<>> THEN w
    ELSE SendTimeoutToAll(
             send_response_for_request(w, e, Head(q), StatusResponse(BadTimeout)),
             e, Tail(q))

_cancelTimeoutRequests(w, e, current_time) ==
    IF Len(w.eng[e].queue) = 0 THEN w
    ELSE LET q == w.eng[e].queue
             invalid_published_request ==
                 SelectSeqBy(q, {i \in 1..Len(q) : timeout_filter(q[i], current_time)})
             still_valid ==
                 SelectSeqBy(q, {i \in 1..Len(q) : ~timeout_filter(q[i], current_time)})
             w1 == [w EXCEPT !.eng[e].queue = still_valid]
         IN SendTimeoutToAll(w1, e, invalid_published_request)

_on_tick(w, e, current_time) == _cancelTimeoutRequests(w, e, current_time)

\* a session close that cancels the requests and leaves the flag unset
onSessionClose_cancelOnly(w, e) ==
    _cancelPendingPublishRequest(w, e, BadSessionClosed)

onSessionClose(w, e) ==
    _cancelPendingPublishRequest([w EXCEPT !.eng[e].isSessionClosed = TRUE],
                                 e, BadSessionClosed)

\* a channel change handled as a session close
cancelPendingPublishRequestBeforeChannelChange_close(w, e) == onSessionClose(w, e)

cancelPendingPublishRequestBeforeChannelChange(w, e) ==
    _cancelPendingPublishRequest(w, e, BadSecureChannelClosed)

----------------------------------------------------------------------------
(* The subscription map *)

add_subscription(w, e, s) ==
    LET w1 == [w EXCEPT !.sub[s].publishEngine = IF @ = NoEngine THEN e ELSE @]
    IN IF w1.sub[s].publishEngine # e THEN Fail(w1, "add_subscription:publishEngine")
       ELSE IF s \in w1.eng[e].subs THEN Fail(w1, "add_subscription:id")
       ELSE [w1 EXCEPT !.eng[e].subs = @ \cup {s}]

\* a detach that clears the back-reference and leaves the entry in the map
detach_subscription_keepEntry(w, e, s) ==
    IF w.sub[s].publishEngine # e THEN Fail(w, "detach_subscription:publishEngine")
    ELSE IF s \notin w.eng[e].subs THEN Fail(w, "detach_subscription:id")
    ELSE [w EXCEPT !.sub[s].publishEngine = NoEngine]

\* a detach that cancels the pending requests when the last subscription leaves
detach_subscription_cancel(w, e, s) ==
    IF w.sub[s].publishEngine # e THEN Fail(w, "detach_subscription:publishEngine")
    ELSE IF s \notin w.eng[e].subs THEN Fail(w, "detach_subscription:id")
    ELSE LET w1 == [w EXCEPT !.eng[e].subs = @ \ {s},
                             !.sub[s].publishEngine = NoEngine]
         IN IF subscriptionCount(w1, e) = 0
            THEN cancelPendingPublishRequest(w1, e)
            ELSE w1

detach_subscription(w, e, s) ==
    IF w.sub[s].publishEngine # e THEN Fail(w, "detach_subscription:publishEngine")
    ELSE IF s \notin w.eng[e].subs THEN Fail(w, "detach_subscription:id")
    ELSE [w EXCEPT !.eng[e].subs = @ \ {s},
                   !.sub[s].publishEngine = NoEngine]

\* a shutdown that answers the pending requests before it discards them
shutdown_cancel(w, e) ==
    IF subscriptionCount(w, e) # 0 THEN Fail(w, "shutdown")
    ELSE LET w1 == _cancelPendingPublishRequest(w, e, BadNoSubscription)
         IN [w1 EXCEPT !.eng[e].responses = <<>>,
                       !.eng[e].closed = <<>>]

shutdown(w, e) ==
    IF subscriptionCount(w, e) # 0 THEN Fail(w, "shutdown")
    ELSE [w EXCEPT !.eng[e].queue = <<>>,
                   !.eng[e].responses = <<>>,
                   !.eng[e].closed = <<>>]

on_close_subscription(w, e, s) ==
    IF s \notin w.eng[e].subs THEN Fail(w, "on_close_subscription")
    ELSE LET w1 == IF hasPendingNotifications(w, s)
                   THEN [w EXCEPT !.eng[e].closed = Append(@, s)]
                   ELSE w
             w2 == [w1 EXCEPT !.eng[e].subs = @ \ {s}]
         IN IF subscriptionCount(w2, e) = 0
            THEN LET w3 == FeedClosedWhile(w2, e)
                 IN IF w3.err # "none" THEN w3 ELSE cancelPendingPublishRequest(w3, e)
            ELSE w2

\* a transfer that tells the subscription once it is attached to its new engine
transferSubscription_notifyLast(w, s, destPublishEngine, sendInitialValues) ==
    LET srcPublishEngine == w.sub[s].publishEngine
        w2 == detach_subscription(w, srcPublishEngine, s)
        w3 == IF w2.err # "none" THEN w2 ELSE add_subscription(w2, destPublishEngine, s)
        w4 == IF w3.err # "none" THEN w3 ELSE resetLifeTimeCounter(w3, s)
        w5 == IF w4.err # "none" THEN w4
              ELSE IF sendInitialValues THEN resendInitialValues(w4, s) ELSE w4
    IN IF w5.err # "none" THEN w5 ELSE notifyTransfer(w5, s)

transferSubscription(w, s, destPublishEngine, sendInitialValues) ==
    LET srcPublishEngine == w.sub[s].publishEngine
        w1 == notifyTransfer(w, s)
        w2 == IF w1.err # "none" THEN w1 ELSE detach_subscription(w1, srcPublishEngine, s)
        w3 == IF w2.err # "none" THEN w2 ELSE add_subscription(w2, destPublishEngine, s)
        w4 == IF w3.err # "none" THEN w3 ELSE resetLifeTimeCounter(w3, s)
    IN IF w4.err # "none" THEN w4
       ELSE IF sendInitialValues THEN resendInitialValues(w4, s) ELSE w4

RECURSIVE TransferEach(_, _, _)
\* _.forEach(tmp, subscription => transferSubscription(subscription, dest, false))
TransferEach(w, list, destPublishEngine) ==
    IF list = <<>> \/ w.err # "none" THEN w
    ELSE TransferEach(transferSubscription(w, Head(list), destPublishEngine, FALSE),
                      Tail(list), destPublishEngine)

\* a transfer of all that moves the first subscription only
transferSubscriptions_first(w, srcPublishEngine, destPublishEngine) ==
    LET list == SetToSortedSeq(w.eng[srcPublishEngine].subs)
    IN IF list = <<>> THEN w
       ELSE transferSubscription(w, Head(list), destPublishEngine, FALSE)

transferSubscriptions(w, srcPublishEngine, destPublishEngine) ==
    LET w1 == TransferEach(w, SetToSortedSeq(w.eng[srcPublishEngine].subs),
                           destPublishEngine)
    IN IF w1.err # "none" THEN w1
       ELSE IF subscriptionCount(w1, srcPublishEngine) # 0
            THEN Fail(w1, "transferSubscriptions")
            ELSE w1

----------------------------------------------------------------------------
(* The subscription's own steps (specification, section 4.2) *)

\* the subscription is removed: Closed, and its engine is told
terminate(w, s) ==
    on_close_subscription([w EXCEPT !.sub[s].state = CLOSED],
                          w.sub[s].publishEngine, s)

\* a publishing interval has elapsed with no publish request to answer with
TickWithoutRequest(w, s, newState) ==
    IF w.sub[s].timeToExpiration <= 1
    THEN terminate([w EXCEPT !.sub[s].timeToExpiration = 0], s)
    ELSE [w EXCEPT !.sub[s].timeToExpiration = @ - 1,
                   !.sub[s].state = newState]

\* one publishing interval of subscription s; with nothing to send, the
\* interval is one at which the keep-alive count has elapsed
subscription_tick(w, s) ==
    LET e == w.sub[s].publishEngine
    IN IF w.sub[s].publishingEnabled /\ hasPendingNotifications(w, s)
       THEN IF pendingPublishRequestCount(w, e) > 0
            THEN process_subscription(w, s)
            ELSE TickWithoutRequest(w, s, LATE)
       ELSE IF pendingPublishRequestCount(w, e) > 0
            THEN process_subscription(w, s)
            ELSE TickWithoutRequest(w, s,
                     IF w.sub[s].state \in {KEEPALIVE, LATE} THEN LATE ELSE KEEPALIVE)


----------------------------------------------------------------------------
(* The state machine *)

\* the world an operation starts from: its trace is empty
World ==
    [eng |-> eng, sub |-> sub, cb |-> cbCount,
     log |-> <<>>, calls |-> <<>>, err |-> "none"]

\* the engines that receive publish requests, ticks and session events; the
\* others are the peers subscriptions are transferred to
ActiveEngines == {1}

\* A closed subscription that no closed-drain list holds is garbage; of a
\* closed subscription a list holds only the notifications left to drain, the
\* next sequence number and the engine are read again; a subscription on a
\* peer engine takes no further step, and only its place is read again.
Discarded == [NewSubscription(0, FALSE) EXCEPT !.state = CLOSED]

IsHeld(w, s) == \E e \in Engines : s \in SeqToSet(w.eng[e].closed)

Collect(w) ==
    [s \in SubIds |->
        IF w.sub[s].state # CLOSED
        THEN IF w.sub[s].publishEngine \in Engines \ ActiveEngines
             THEN [NewSubscription(w.sub[s].priority, w.sub[s].publishingEnabled)
                      EXCEPT !.publishEngine = w.sub[s].publishEngine]
             ELSE w.sub[s]
        ELSE IF ~IsHeld(w, s) THEN Discarded
        ELSE [Discarded EXCEPT !.publishEngine = w.sub[s].publishEngine,
                               !.pending = w.sub[s].pending,
                               !.nextSequenceNumber = w.sub[s].nextSequenceNumber]]

Becomes(w) ==
    /\ eng' = w.eng
    /\ sub' = Collect(w)
    /\ cbCount' = w.cb
    /\ err' = w.err
    /\ UNCHANGED others

\* priorities differ, so that the order of the late subscriptions matters
SubPriority(s) == (NumSubs - s) % (MaxPriority + 1)

InitSubs == {[s \in SubIds |-> NewSubscription(SubPriority(s), TRUE)]}

AckInputs ==
    {<<>>} \cup
    (IF MaxAcks = 0 THEN {}
     ELSE {<<[subscriptionId |-> s, sequenceNumber |-> n]>> :
              s \in SubIds, n \in 1..MaxSeq})

TimeoutHints == 0..MaxTimeoutHint

Request(r, acks, timeoutHint) ==
    [id |-> r, requestHandle |-> RequestHandle(r),
     subscriptionAcknowledgements |-> acks, timeoutHint |-> timeoutHint]

IsAttached(s) ==
    /\ sub[s].publishEngine \in Engines
    /\ s \in eng[sub[s].publishEngine].subs

Init ==
    /\ eng = [e \in Engines |-> NewEngine]
    /\ sub \in InitSubs
    /\ cbCount = [r \in ReqIds |-> 0]
    /\ nextReq = 1
    /\ now = 1
    /\ err = "none"
    /\ OthersNotCreated

PublishRequest(e, acks, timeoutHint, sortImpl) ==
    /\ nextReq <= MaxRequests
    /\ Becomes(_on_PublishRequest(World, e, Request(nextReq, acks, timeoutHint),
                                  now, sortImpl))
    /\ nextReq' = nextReq + 1
    /\ UNCHANGED now

EngineTick(e) ==
    /\ Becomes(_on_tick(World, e, now))
    /\ UNCHANGED <<nextReq, now>>

\* the clock moves on by d ms
AdvanceClock(d) ==
    /\ now + d <= MaxTime
    /\ now' = now + d
    /\ UNCHANGED <<eng, sub, cbCount, nextReq, err>>
    /\ UNCHANGED others

CanAdd(e, s) ==
    /\ sub[s].state # CLOSED
    /\ sub[s].publishEngine = NoEngine

AddSubscription(e, s) ==
    /\ CanAdd(e, s)
    /\ Becomes(add_subscription(World, e, s))
    /\ UNCHANGED <<nextReq, now>>

DetachSubscription(e, s) ==
    /\ s \in eng[e].subs
    /\ Becomes(detach_subscription(World, e, s))
    /\ UNCHANGED <<nextReq, now>>

CloseSubscription(s) ==
    /\ IsAttached(s)
    /\ sub[s].publishEngine \in ActiveEngines
    /\ Becomes(terminate(World, s))
    /\ UNCHANGED <<nextReq, now>>

CanTransfer(s, dest) ==
    /\ IsAttached(s)
    /\ sub[s].publishEngine \in ActiveEngines
    /\ dest # sub[s].publishEngine
    /\ sub[s].nextSequenceNumber + sub[s].pending <= MaxSeq

TransferSubscription(s, dest, sendInitialValues) ==
    /\ CanTransfer(s, dest)
    /\ Becomes(transferSubscription(World, s, dest, sendInitialValues))
    /\ UNCHANGED <<nextReq, now>>

CanTransferAll(src, dest) ==
    /\ src \in ActiveEngines
    /\ src # dest
    /\ eng[src].subs # {}
    /\ \A s \in eng[src].subs : sub[s].nextSequenceNumber + sub[s].pending <= MaxSeq

TransferSubscriptions(src, dest) ==
    /\ CanTransferAll(src, dest)
    /\ Becomes(transferSubscriptions(World, src, dest))
    /\ UNCHANGED <<nextReq, now>>

OnSessionClose(e) ==
    /\ Becomes(onSessionClose(World, e))
    /\ UNCHANGED <<nextReq, now>>

CancelBeforeChannelChange(e) ==
    /\ Becomes(cancelPendingPublishRequestBeforeChannelChange(World, e))
    /\ UNCHANGED <<nextReq, now>>

Shutdown(e) ==
    /\ eng[e].subs = {}
    /\ Becomes(shutdown(World, e))
    /\ UNCHANGED <<nextReq, now>>

CanProduce(s) ==
    /\ IsAttached(s)
    /\ sub[s].publishEngine \in ActiveEngines
    /\ sub[s].pending < MaxPending
    /\ sub[s].nextSequenceNumber + sub[s].pending <= MaxSeq

\* the producer queues one notification
Produce(s) ==
    /\ CanProduce(s)
    /\ Becomes([World EXCEPT !.sub[s].pending = @ + 1])
    /\ UNCHANGED <<nextReq, now>>

CanTick(s) ==
    /\ IsAttached(s)
    /\ sub[s].publishEngine \in ActiveEngines

SubscriptionTick(s) ==
    /\ CanTick(s)
    /\ Becomes(subscription_tick(World, s))
    /\ UNCHANGED <<nextReq, now>>

\* the operations on the subscription map, the session and the subscriptions
MapAndSessionStep ==
    \/ \E e \in Engines, s \in SubIds : AddSubscription(e, s)
    \/ \E e \in ActiveEngines, s \in SubIds : DetachSubscription(e, s)
    \/ \E s \in SubIds : CloseSubscription(s)
    \/ \E s \in SubIds, d \in Engines, b \in BOOLEAN : TransferSubscription(s, d, b)
    \/ \E e \in Engines, d \in Engines : TransferSubscriptions(e, d)
    \/ \E e \in ActiveEngines : OnSessionClose(e)
    \/ \E e \in ActiveEngines : CancelBeforeChannelChange(e)
    \/ \E e \in ActiveEngines : Shutdown(e)
    \/ \E s \in SubIds : Produce(s)
    \/ \E s \in SubIds : SubscriptionTick(s)

\* the acknowledgements of the publish requests of Spec
MainAcks == {<<>>}

\* Every operation; the clock jumps from its first to its last value.
Next ==
    \/ \E e \in ActiveEngines, acks \in MainAcks, h \in TimeoutHints, i \in SortImpls :
           PublishRequest(e, acks, h, i)
    \/ \E e \in ActiveEngines : EngineTick(e)
    \/ AdvanceClock(MaxTime - 1)
    \/ MapAndSessionStep

Spec == Init /\ [][Next]_vars

NoAssertionFails == err = "none"

----------------------------------------------------------------------------
(* The operations a state offers, each with the world it leaves *)

PendingIds(w) == UNION {QueueIds(w.eng[e].queue) : e \in Engines}

\* the deliveries of a trace, as the requests they answer
LogIds(log) == {log[i].req : i \in 1..Len(log)}

\* how many deliveries of a trace answer request r
Deliveries(log, r) == Cardinality({i \in 1..Len(log) : log[i].req = r})

\* the publish requests a state may receive: every acknowledgement list
PublishInputs ==
    IF nextReq > MaxRequests THEN {}
    ELSE {<<Request(nextReq, acks, h), i>> :
             acks \in AckInputs, h \in TimeoutHints, i \in SortImpls}

Outcome(name, e, r, w) == [op |-> name, e |-> e, r |-> r, w |-> w]

\* every operation the state offers, with the request it submits (or 0) and
\* the world it leaves
Outcomes ==
    {Outcome("_on_PublishRequest", x[1], x[2][1].id,
             _on_PublishRequest(World, x[1], x[2][1], now, x[2][2])) :
        x \in ActiveEngines \X PublishInputs}
    \cup {Outcome("_on_tick", e, 0, _on_tick(World, e, now)) : e \in ActiveEngines}
    \cup {Outcome("add_subscription", x[1], 0, add_subscription(World, x[1], x[2])) :
             x \in {y \in Engines \X SubIds : CanAdd(y[1], y[2])}}
    \cup {Outcome("detach_subscription", x[1], 0,
                  detach_subscription(World, x[1], x[2])) :
             x \in {y \in ActiveEngines \X SubIds : y[2] \in eng[y[1]].subs}}
    \cup {Outcome("terminate", sub[s].publishEngine, 0, terminate(World, s)) :
             s \in {y \in SubIds : CanTick(y)}}
    \cup {Outcome("subscription_tick", sub[s].publishEngine, 0,
                  subscription_tick(World, s)) :
             s \in {y \in SubIds : CanTick(y)}}
    \cup {Outcome("transferSubscription", sub[x[1]].publishEngine, 0,
                  transferSubscription(World, x[1], x[2], x[3])) :
             x \in {y \in SubIds \X Engines \X BOOLEAN : CanTransfer(y[1], y[2])}}
    \cup {Outcome("transferSubscriptions", x[1], 0,
                  transferSubscriptions(World, x[1], x[2])) :
             x \in {y \in Engines \X Engines : CanTransferAll(y[1], y[2])}}
    \cup {Outcome("onSessionClose", e, 0, onSessionClose(World, e)) :
             e \in ActiveEngines}
    \cup {Outcome("cancelPendingPublishRequestBeforeChannelChange", e, 0,
                  cancelPendingPublishRequestBeforeChannelChange(World, e)) :
             e \in ActiveEngines}
    \cup {Outcome("shutdown", e, 0, shutdown(World, e)) :
             e \in {y \in ActiveEngines : eng[y].subs = {}}}

\* the requests an operation has in hand: those pending and the one it submits
InHand(o) == PendingIds(World) \cup ({o.r} \ {0})

\* C1: on every engine the pending-request queue and the stashed-response
\* queue are never both non-empty, and the assertion of
\* _process_pending_publish_response on it never fails.
C1_QueuesNeverBothNonEmpty ==
    /\ \A e \in Engines : Len(eng[e].queue) = 0 \/ Len(eng[e].responses) = 0
    /\ err # "_process_pending_publish_response"
    /\ \A e \in ActiveEngines : \A in \in PublishInputs :
           _on_PublishRequest(World, e, in[1], now, in[2]).err = "none"

\* a response is stashed on an engine that has answered a request and may
\* receive another
C1_Witness ==
    \E e \in ActiveEngines :
        /\ Len(eng[e].responses) > 0
        /\ \E r \in ReqIds : cbCount[r] = 1
        /\ PublishInputs # {}

\* C2: the pending-request queue of an engine never holds more than
\* maxPublishRequestInQueue requests once an operation has returned, the
\* admission without a subscription included.
C2_QueueBounded ==
    /\ \A e \in Engines : Len(eng[e].queue) <= MaxPublishRequestInQueue
    /\ \A e \in ActiveEngines : \A in \in PublishInputs :
           Len(_on_PublishRequest(World, e, in[1], now, in[2]).eng[e].queue)
               <= MaxPublishRequestInQueue

\* a full queue, no subscription, and a closed subscription to drain: the
\* request is admitted without an eviction, and a request is answered
C2_Witness ==
    \E e \in ActiveEngines : \E in \in PublishInputs :
        /\ Len(eng[e].queue) = MaxPublishRequestInQueue
        /\ eng[e].subs = {}
        /\ Len(eng[e].closed) > 0
        /\ hasPendingNotifications(World, Head(eng[e].closed))
        /\ LET w == _on_PublishRequest(World, e, in[1], now, in[2])
           IN /\ Len(w.eng[e].queue) = MaxPublishRequestInQueue
              /\ in[1].id \in QueueIds(w.eng[e].queue)



C4_LeavesOnlyAnswered ==
    \A o \in Outcomes :
        \A r \in PendingIds(World) \ PendingIds(o.w) :
            \E i \in 1..Len(o.w.log) :
                /\ o.w.log[i].req = r
                /\ o.w.log[i].serviceResult \in
                       {Good, BadTimeout, BadTooManyPublishRequests, BadSessionClosed,
                        BadSecureChannelClosed, BadNoSubscription}

\* the operations that answer a request with a status code
RouteOf(statusCode) ==
    CASE statusCode = Good ->
             {"_on_PublishRequest", "subscription_tick", "terminate",
              "transferSubscription", "transferSubscriptions"}
      [] statusCode = BadTimeout -> {"_on_tick"}
      [] statusCode = BadTooManyPublishRequests -> {"_on_PublishRequest"}
      [] statusCode = BadSessionClosed -> {"onSessionClose"}
      [] statusCode = BadSecureChannelClosed ->
             {"cancelPendingPublishRequestBeforeChannelChange"}
      [] statusCode = BadNoSubscription -> {"terminate", "subscription_tick"}
      [] OTHER -> {}

\* C4: a request leaves the pending queue only by being answered with a
\* notification or keep-alive, by timing out (BadTimeout, on a tick), by being
\* evicted as one too many (BadTooManyPublishRequests, on a publish request),
\* by being cancelled (BadSessionClosed on session close,
\* BadSecureChannelClosed on a channel change, BadNoSubscription when the last
\* subscription closes), or by being discarded without a callback by shutdown.
C4_LeavesAnsweredOrShutdown ==
    \A o \in Outcomes :
        \A r \in PendingIds(World) \ PendingIds(o.w) :
            IF o.op = "shutdown" THEN Deliveries(o.w.log, r) = 0
            ELSE \E i \in 1..Len(o.w.log) :
                     /\ o.w.log[i].req = r
                     /\ o.op \in RouteOf(o.w.log[i].serviceResult)
                     /\ o.w.log[i].serviceResult = Good
                            => o.w.log[i].subscriptionId \in SubIds

\* a tick times a pending request out while another stays pending
C4_Witness ==
    \E o \in Outcomes :
        /\ o.op = "_on_tick"
        /\ PendingIds(o.w) # {}
        /\ \E i \in 1..Len(o.w.log) : o.w.log[i].serviceResult = BadTimeout

\* the notification messages a subscription may hand to its engine
NotificationParams ==
    [subscriptionId : SubIds, sequenceNumber : 1..MaxSeq,
     notificationData : {"DataChange", "StatusChange"}, moreNotifications : BOOLEAN]

\* delivery d answers request publishData with the message param
Answers(d, publishData, param) ==
    /\ d.req = publishData.id
    /\ d.requestHandle = publishData.requestHandle
    /\ d.serviceResult = Good
    /\ d.subscriptionId = param.subscriptionId
    /\ d.sequenceNumber = param.sequenceNumber
    /\ d.notificationData = param.notificationData
    /\ d.moreNotifications = param.moreNotifications

\* C5: send_notification_message answers the oldest pending request at once
\* and takes it out of the queue, so that successive messages answer the
\* requests in the order they were received; with no request pending and
\* force set it appends the response to the stash and invokes no callback.
C5_NotificationsAnswerFifo ==
    \A e \in ActiveEngines : \A param \in NotificationParams : \A force \in BOOLEAN :
        LET q == eng[e].queue
            w1 == send_notification_message(World, e, param, force)
            w2 == send_notification_message(w1, e, param, force)
        IN IF Len(q) > 0
           THEN /\ w1.eng[e].queue = Tail(q)
                /\ w1.eng[e].responses = eng[e].responses
                /\ Len(w1.log) = 1
                /\ Answers(w1.log[1], q[1], param)
                /\ w1.cb[q[1].id] = cbCount[q[1].id] + 1
                /\ Len(q) > 1 =>
                       /\ w2.eng[e].queue = Tail(Tail(q))
                       /\ Len(w2.log) = 2
                       /\ Answers(w2.log[2], q[2], param)
           ELSE force =>
                /\ w1.eng[e].queue = <<>>
                /\ w1.log = <<>>
                /\ w1.cb = cbCount
                /\ Len(w1.eng[e].responses) = Len(eng[e].responses) + 1
                /\ SubSeq(w1.eng[e].responses, 1, Len(eng[e].responses))
                       = eng[e].responses
                /\ w1.eng[e].responses[Len(w1.eng[e].responses)].sequenceNumber
                       = param.sequenceNumber
                /\ w1.eng[e].responses[Len(w1.eng[e].responses)].subscriptionId
                       = param.subscriptionId

\* a subscription tick sends a notification while two requests are pending:
\* the older one is answered and the newer one stays
C5_Witness ==
    \E o \in Outcomes :
        /\ o.op = "subscription_tick"
        /\ Len(eng[o.e].queue) > 1
        /\ Len(o.w.log) = 1
        /\ o.w.log[1].req = eng[o.e].queue[1].id
        /\ o.w.log[1].notificationData = "DataChange"
        /\ o.w.eng[o.e].queue = Tail(eng[o.e].queue)

\* the smallest of a set of request ids: the request received first
Oldest(ids) == CHOOSE r \in ids : \A x \in ids : r <= x

\* C6: when a publish request leaves the queue one above
\* maxPublishRequestInQueue, the oldest queued request, not the new one, is
\* taken out and answered BadTooManyPublishRequests with its own request
\* handle, and the other requests stay queued in their order.
C6_TooManyEvictsOldest ==
    \A e \in ActiveEngines : \A in \in PublishInputs :
        (/\ ~HasPendingPublishResponse(World, e)
         /\ ~eng[e].isSessionClosed
         /\ eng[e].subs # {})
        => LET w0 == process_subscriptionAcknowledgements(
                         World, e, in[1].subscriptionAcknowledgements)
               w3 == AdmitAndFeed(w0, e, PublishData(World, e, in[1]),
                                  in[1].timeoutHint, now, in[2])
               w4 == _on_PublishRequest(World, e, in[1], now, in[2])
               q == w3.eng[e].queue
               n == Len(w4.log)
           IN IF Len(q) > MaxPublishRequestInQueue
              THEN /\ w4.eng[e].queue = Tail(q)
                   /\ n = Len(w3.log) + 1
                   /\ SubSeq(w4.log, 1, n - 1) = w3.log
                   /\ w4.log[n].req = Oldest(QueueIds(q))
                   /\ w4.log[n].req # in[1].id
                   /\ w4.log[n].serviceResult = BadTooManyPublishRequests
                   /\ w4.log[n].requestHandle = RequestHandle(w4.log[n].req)
                   /\ w4.cb[w4.log[n].req] = 1
                   /\ in[1].id \in QueueIds(w4.eng[e].queue)
              ELSE /\ w4.eng[e].queue = q
                   /\ w4.log = w3.log

\* a publish request arrives at a full queue and the oldest request is evicted
C6_Witness ==
    \E o \in Outcomes :
        /\ o.op = "_on_PublishRequest"
        /\ Len(eng[o.e].queue) = MaxPublishRequestInQueue
        /\ Len(o.w.log) = 1
        /\ o.w.log[1].serviceResult = BadTooManyPublishRequests
        /\ o.w.log[1].req = eng[o.e].queue[1].id
        /\ o.r \in QueueIds(o.w.eng[o.e].queue)

\* the i-th publish request from now on, without acknowledgements
NextRequest(i) == Request(nextReq + i, <<>>, 0)

\* C7: a subscription closed with two pending notifications, no other
\* subscription attached and no request pending, delivers them one per
\* publish request: the first request after the close receives the first
\* notification, the second request the second one, and the third request
\* BadNoSubscription.
C7_ClosedSubscriptionDrainsAll ==
    \A e \in ActiveEngines : \A s \in SubIds : \A i \in SortImpls :
        (/\ eng[e].subs = {} /\ eng[e].closed = <<s>>
         /\ eng[e].queue = <<>> /\ eng[e].responses = <<>>
         /\ ~eng[e].isSessionClosed
         /\ sub[s].pending = 2
         /\ nextReq + 2 <= MaxRequests)
        => LET first == sub[s].nextSequenceNumber
               w1 == _on_PublishRequest(World, e, NextRequest(0), now, i)
               w2 == _on_PublishRequest(w1, e, NextRequest(1), now, i)
               w3 == _on_PublishRequest(w2, e, NextRequest(2), now, i)
           IN /\ Len(w3.log) = 3
              /\ \A k \in 1..3 : w3.log[k].req = nextReq + k - 1
              /\ \A k \in 1..2 :
                     /\ w3.log[k].serviceResult = Good
                     /\ w3.log[k].subscriptionId = s
                     /\ w3.log[k].sequenceNumber = first + k - 1
              /\ w3.log[3].serviceResult = BadNoSubscription

\* C8: a publish request that arrives with no subscription attached while the
\* head of the closed-drain list has pending notifications is the request the
\* closed-drain step answers, older requests left pending by a detach or a
\* transfer notwithstanding.
C8_DrainConsumesTheNewRequest ==
    \A e \in ActiveEngines : \A in \in PublishInputs :
        (/\ ~HasPendingPublishResponse(World, e)
         /\ ~eng[e].isSessionClosed
         /\ eng[e].subs = {}
         /\ Len(eng[e].closed) > 0
         /\ hasPendingNotifications(World, Head(eng[e].closed)))
        => LET w == _on_PublishRequest(World, e, in[1], now, in[2])
           IN /\ w.err = "none"
              /\ Len(w.log) = 1
              /\ w.log[1].req = in[1].id
              /\ w.log[1].subscriptionId = Head(eng[e].closed)
              /\ w.eng[e].queue = eng[e].queue

\* C9: a publish request that finds no stashed response, the session open, no
\* subscription attached and no closed subscription with pending
\* notifications at the head of the closed-drain list is answered at once with
\* BadNoSubscription and is not enqueued.
C9_NoSubscriptionAnsweredAtOnce ==
    \A e \in ActiveEngines : \A in \in PublishInputs :
        (/\ ~HasPendingPublishResponse(World, e)
         /\ ~eng[e].isSessionClosed
         /\ eng[e].subs = {}
         /\ ~(/\ Len(eng[e].closed) > 0
              /\ hasPendingNotifications(World, Head(eng[e].closed))))
        => LET w == _on_PublishRequest(World, e, in[1], now, in[2])
           IN /\ Len(w.log) = 1
              /\ w.log[1].req = in[1].id
              /\ w.log[1].requestHandle = in[1].requestHandle
              /\ w.log[1].serviceResult = BadNoSubscription
              /\ w.cb[in[1].id] = 1
              /\ w.eng[e].queue = eng[e].queue

\* an engine without a subscription still holds an older request, and the
\* request that arrives is answered BadNoSubscription
C9_Witness ==
    \E o \in Outcomes :
        /\ o.op = "_on_PublishRequest"
        /\ eng[o.e].subs = {}
        /\ Len(eng[o.e].queue) > 0
        /\ Len(o.w.log) = 1
        /\ o.w.log[1].req = o.r
        /\ o.w.log[1].serviceResult = BadNoSubscription
        /\ o.w.eng[o.e].queue = eng[o.e].queue

\* C10: onSessionClose answers every pending publish request with
\* BadSessionClosed, empties the request queue and sets isSessionClosed; from
\* then on the flag stays set, no request is enqueued, and a publish request
\* that finds no stashed response is answered at once with BadSessionClosed,
\* subscriptions attached or not.
C10_SessionClose ==
    /\ \A e \in ActiveEngines :
           LET q == eng[e].queue
               w == onSessionClose(World, e)
           IN /\ w.eng[e].queue = <<>>
              /\ w.eng[e].isSessionClosed
              /\ Len(w.log) = Len(q)
              /\ \A k \in 1..Len(q) :
                     /\ w.log[k].req = q[k].id
                     /\ w.log[k].requestHandle = q[k].requestHandle
                     /\ w.log[k].serviceResult = BadSessionClosed
    /\ \A e \in Engines : eng[e].isSessionClosed => eng[e].queue = <<>>
    /\ \A o \in Outcomes :
           eng[o.e].isSessionClosed =>
               /\ o.w.eng[o.e].isSessionClosed
               /\ o.w.eng[o.e].queue = <<>>
               /\ (o.op = "_on_PublishRequest" /\ eng[o.e].responses = <<>>) =>
                      /\ Len(o.w.log) = 1
                      /\ o.w.log[1].req = o.r
                      /\ o.w.log[1].serviceResult = BadSessionClosed

\* the session is closed, a subscription is attached, nothing is stashed,
\* and a publish request is answered BadSessionClosed
C10_Witness ==
    \E o \in Outcomes :
        /\ o.op = "_on_PublishRequest"
        /\ eng[o.e].isSessionClosed
        /\ eng[o.e].subs # {}
        /\ eng[o.e].responses = <<>>
        /\ \E r \in ReqIds : cbCount[r] = 1
        /\ o.w.log[1].serviceResult = BadSessionClosed

\* the clock values a tick may read from now on
TickTimes == now..MaxTime

\* the indices of the requests of q that time t has timed out
Expired(q, t) == {i \in 1..Len(q) : q[i].timeout_time # 0 /\ q[i].timeout_time < t}

\* a tick takes out exactly the requests whose deadline is non-zero and before
\* the current time, answers each with BadTimeout, and keeps the others in order
TickRemovesExpired ==
    \A e \in ActiveEngines : \A t \in TickTimes :
        LET q == eng[e].queue
            w == _on_tick(World, e, t)
            gone == SelectSeqBy(q, Expired(q, t))
        IN /\ w.eng[e].queue = SelectSeqBy(q, (1..Len(q)) \ Expired(q, t))
           /\ Len(w.log) = Len(gone)
           /\ \A k \in 1..Len(gone) :
                  /\ w.log[k].req = gone[k].id
                  /\ w.log[k].serviceResult = BadTimeout
           /\ [w EXCEPT !.eng = eng, !.log = <<>>, !.cb = cbCount] = World

\* a request left in the queue by its admission has the deadline
\* receivedAt + timeoutHint when timeoutHint > 0, and none otherwise
DeadlineFromHint ==
    \A e \in ActiveEngines : \A in \in PublishInputs :
        LET w == _on_PublishRequest(World, e, in[1], now, in[2])
            q == w.eng[e].queue
        IN \A k \in 1..Len(q) :
               q[k].id = in[1].id =>
                   q[k].timeout_time =
                       IF in[1].timeoutHint > 0 THEN now + in[1].timeoutHint ELSE 0

\* C11: a tick removes from the pending queue exactly the requests whose
\* deadline is non-zero and strictly before the current time, answers each
\* with BadTimeout and leaves the others queued in their order; the deadline
\* of a request is receivedAt + timeoutHint when timeoutHint > 0, and a
\* request with timeoutHint 0 has none.
C11_TickTimesOutByHint == TickRemovesExpired /\ DeadlineFromHint

\* C12: cancelPendingPublishRequestBeforeChannelChange answers every pending
\* publish request with BadSecureChannelClosed and empties the request queue;
\* the subscription map, the closed-drain list, the stashed responses,
\* isSessionClosed and the subscriptions are left as they were, and a publish
\* request that follows is admitted as usual: with a subscription attached,
\* the session open and nothing stashed it is queued or answered Good.
C12_ChannelChangeCancels ==
    \A e \in ActiveEngines :
        LET q == eng[e].queue
            w == cancelPendingPublishRequestBeforeChannelChange(World, e)
        IN /\ w.eng = [eng EXCEPT ![e].queue = <<>>]
           /\ w.sub = sub
           /\ w.err = "none"
           /\ Len(w.log) = Len(q)
           /\ \A k \in 1..Len(q) :
                  /\ w.log[k].req = q[k].id
                  /\ w.log[k].requestHandle = q[k].requestHandle
                  /\ w.log[k].serviceResult = BadSecureChannelClosed
                  /\ w.cb[q[k].id] = 1
           /\ \A in \in PublishInputs :
                  LET w2 == _on_PublishRequest(w, e, in[1], now, in[2])
                      after == SubSeq(w2.log, Len(q) + 1, Len(w2.log))
                  IN /\ \A k \in 1..Len(after) :
                            after[k].serviceResult # BadSecureChannelClosed
                     /\ (/\ eng[e].subs # {}
                         /\ ~eng[e].isSessionClosed
                         /\ eng[e].responses = <<>>)
                        => \/ /\ in[1].id \in QueueIds(w2.eng[e].queue)
                              /\ after = <<>>
                           \/ /\ Len(after) = 1
                              /\ after[1].req = in[1].id
                              /\ after[1].serviceResult = Good
                              /\ w2.eng[e].queue = <<>>

\* requests are pending while a subscription is attached and a closed one
\* waits to be drained, and the channel changes
C12_Witness ==
    \E o \in Outcomes :
        /\ o.op = "cancelPendingPublishRequestBeforeChannelChange"
        /\ Len(eng[o.e].queue) > 1
        /\ eng[o.e].subs # {}
        /\ eng[o.e].closed # <<>>
        /\ o.w.eng[o.e].queue = <<>>
        /\ PublishInputs # {}

RECURSIVE PendingOf(_, _)
\* the notifications the subscriptions of a closed-drain list still hold
PendingOf(w, list) ==
    IF list = <<>> THEN 0 ELSE w.sub[Head(list)].pending + PendingOf(w, Tail(list))

Min(a, b) == IF a <= b THEN a ELSE b

\* C13: when on_close_subscription removes the last attached subscription of
\* an engine, the closed subscriptions are drained against the pending
\* requests for as long as a closed subscription holds a notification and a
\* request is pending: the oldest requests receive those notifications, every
\* request left is answered BadNoSubscription, and the queue is empty on
\* return.
C13_LastCloseDrainsThenCancels ==
    \A s \in SubIds :
        (CanTick(s) /\ eng[sub[s].publishEngine].subs = {s})
        => LET e == sub[s].publishEngine
               q == eng[e].queue
               w == terminate(World, s)
               closed == IF sub[s].pending > 0
                         THEN Append(eng[e].closed, s) ELSE eng[e].closed
               drained == Min(Len(q), PendingOf(World, closed))
           IN /\ w.err = "none"
              /\ w.eng[e].queue = <<>>
              /\ w.eng[e].subs = {}
              /\ Len(w.log) = Len(q)
              /\ \A k \in 1..Len(q) :
                     /\ w.log[k].req = q[k].id
                     /\ w.log[k].serviceResult =
                            IF k <= drained THEN Good ELSE BadNoSubscription

----------------------------------------------------------------------------
(* The choice of the subscription to feed: the subscriptions of an engine  *)
(* in every combination of state, priority, remaining lifetime and         *)
(* delivery history                                                        *)

\* an attached subscription that is Late, or Normal after a first message
FeedSubscriptions ==
    {[NewSubscription(p, en) EXCEPT !.state = st, !.publishEngine = 1,
                                    !.messageSent = ms, !.pending = n,
                                    !.timeToExpiration = t] :
        p \in 0..MaxPriority, en \in BOOLEAN, st \in {LATE, NORMAL},
        ms \in BOOLEAN, n \in 0..1, t \in 1..MaxLifetime}

InitFeed ==
    /\ eng = [e \in Engines |-> IF e = 1 THEN [NewEngine EXCEPT !.subs = SubIds]
                                ELSE NewEngine]
    /\ sub \in [SubIds -> {x \in FeedSubscriptions : x.state = NORMAL => x.messageSent}]
    /\ cbCount = [r \in ReqIds |-> 0]
    /\ nextReq = 1
    /\ now = 1
    /\ err = "none"
    /\ OthersNotCreated

NextFeed ==
    \E e \in ActiveEngines, h \in TimeoutHints, i \in SortImpls :
        PublishRequest(e, <<>>, h, i)

SpecFeed == InitFeed /\ [][NextFeed]_vars

\* the subscriptions whose process_subscription an operation has invoked
Processed(w) ==
    SelectSeqBy(w.calls, {i \in 1..Len(w.calls) : w.calls[i][1] = "process_subscription"})

\* the Late subscriptions of engine e that have never delivered a message
NeverServed(e) == {s \in eng[e].subs : sub[s].state = LATE /\ ~sub[s].messageSent}

\* the Late subscriptions of engine e that may publish
LateEnabled(e) == {s \in eng[e].subs : sub[s].state = LATE /\ sub[s].publishingEnabled}

\* a publish request reaches the admission with the feeds
Admitted(e) ==
    /\ eng[e].responses = <<>>
    /\ ~eng[e].isSessionClosed
    /\ eng[e].subs # {}

\* C14: on the admission of a publish request, if an attached subscription
\* is Late and has never delivered a message, feed-late processes one of
\* those with the smallest timeToExpiration among them, whatever the
\* priorities of the Late subscriptions that have delivered; no publish
\* request invokes process_subscription more than once.
C14_NeverServedFirst ==
    \A e \in ActiveEngines : \A in \in PublishInputs :
        LET w == _on_PublishRequest(World, e, in[1], now, in[2])
        IN /\ Len(Processed(w)) <= 1
           /\ (Admitted(e) /\ NeverServed(e) # {})
              => /\ Len(Processed(w)) = 1
                 /\ Processed(w)[1][2] \in NeverServed(e)
                 /\ \A s \in NeverServed(e) :
                        sub[Processed(w)[1][2]].timeToExpiration
                            <= sub[s].timeToExpiration

\* a Late subscription never served is fed although a Late subscription that
\* has delivered has a higher priority and less time to live
C14_Witness ==
    \E e \in ActiveEngines : \E in \in PublishInputs : \E s, t \in eng[e].subs :
        /\ Admitted(e)
        /\ s \in NeverServed(e)
        /\ t \in LateEnabled(e) \ NeverServed(e)
        /\ sub[t].priority > sub[s].priority
        /\ sub[t].timeToExpiration < sub[s].timeToExpiration
        /\ Processed(_on_PublishRequest(World, e, in[1], now, in[2])) =
               <<(<<"process_subscription", s>>)>>

\* C15: with no Late subscription that has never delivered, the subscription
\* feed-late processes among the Late subscriptions with publishingEnabled
\* has the highest priority among them and, among those of that priority,
\* the smallest timeToExpiration.
C15_HighestPriorityThenUrgency ==
    \A e \in ActiveEngines : \A in \in PublishInputs :
        (Admitted(e) /\ NeverServed(e) = {} /\ LateEnabled(e) # {})
        => LET w == _on_PublishRequest(World, e, in[1], now, in[2])
               chosen == Processed(w)[1][2]
           IN /\ Len(Processed(w)) = 1
              /\ chosen \in LateEnabled(e)
              /\ \A s \in LateEnabled(e) :
                     \/ sub[chosen].priority > sub[s].priority
                     \/ /\ sub[chosen].priority = sub[s].priority
                        /\ sub[chosen].timeToExpiration <= sub[s].timeToExpiration

\* C16: a publish request that finds a stashed response receives the oldest
\* one, with its own acknowledgement results and request handle; the response
\* leaves the stash, the request is not enqueued, and nothing else is done
\* for it: no subscription is fed, no closed subscription is drained, and no
\* session-closed, no-subscription or too-many answer is given.
C16_StashAnswersTheRequest ==
    \A e \in ActiveEngines : \A in \in PublishInputs :
        eng[e].responses # <<>>
        => LET w == _on_PublishRequest(World, e, in[1], now, in[2])
               acked == process_subscriptionAcknowledgements(
                            World, e, in[1].subscriptionAcknowledgements)
               response == Head(eng[e].responses)
           IN /\ w.err = "none"
              /\ w.eng = [eng EXCEPT ![e].responses = Tail(@)]
              /\ w.sub = acked.sub
              /\ w.calls = <<>>
              /\ w.cb = [cbCount EXCEPT ![in[1].id] = 1]
              /\ Len(w.log) = 1
              /\ w.log[1].req = in[1].id
              /\ w.log[1].requestHandle = in[1].requestHandle
              /\ w.log[1].results =
                     AckResults(World, e, in[1].subscriptionAcknowledgements)
              /\ w.log[1].serviceResult = response.serviceResult
              /\ w.log[1].subscriptionId = response.subscriptionId
              /\ w.log[1].sequenceNumber = response.sequenceNumber
              /\ w.log[1].availableSequenceNumbers = response.availableSequenceNumbers
              /\ w.log[1].notificationData = response.notificationData

\* a response is stashed, a Late subscription waits to be fed, and the
\* request acknowledges a retained notification: it receives the stashed
\* response with the result Good
C16_Witness ==
    \E e \in ActiveEngines : \E in \in PublishInputs :
        /\ Len(eng[e].responses) > 0
        /\ NeverServed(e) \cup LateEnabled(e) # {}
        /\ LET w == _on_PublishRequest(World, e, in[1], now, in[2])
           IN /\ w.log[1].results = <<Good>>
              /\ w.log[1].notificationData = "StatusChange"
              /\ w.eng[e].responses = Tail(eng[e].responses)

\* one acknowledgement
AckItems == {[subscriptionId |-> s, sequenceNumber |-> n] : s \in SubIds, n \in 1..MaxSeq}

\* the lists of at most MaxAckList acknowledgements
AckLists == UNION {[1..n -> AckItems] : n \in 0..MaxAckList}

\* the publish requests a state may receive, with longer acknowledgement lists
AckRequests ==
    IF nextReq > MaxRequests THEN {}
    ELSE {Request(nextReq, acks, 0) : acks \in AckLists}

\* the world after the first k acknowledgements of a list
AckedUpTo(e, acks, k) ==
    process_subscriptionAcknowledgements(World, e, SubSeq(acks, 1, k))

\* the result the k-th acknowledgement of a list is owed: the subscription is
\* looked up in the map of the engine, and its ring is asked when the earlier
\* acknowledgements have been applied
ExpectedAckResult(e, acks, k) ==
    IF acks[k].subscriptionId \notin eng[e].subs THEN BadSubscriptionIdInvalid
    ELSE IF acks[k].sequenceNumber
                \in SeqToSet(AckedUpTo(e, acks, k - 1).sub[acks[k].subscriptionId].retained)
         THEN Good
         ELSE BadSequenceNumberUnknown

\* C17: the acknowledgements of a publish request are applied before its
\* outcome is decided, whatever the outcome; the results have one entry per
\* acknowledgement, in order; an entry is BadSubscriptionIdInvalid exactly
\* when the subscription is not in the map of the engine, and otherwise the
\* status acknowledgeNotification returns for the sequence number.
C17_AckResultsPerEntry ==
    \A e \in ActiveEngines : \A request \in AckRequests : \A i \in SortImpls :
        LET acks == request.subscriptionAcknowledgements
            w == _on_PublishRequest(World, e, request, now, i)
            expected == [k \in 1..Len(acks) |-> ExpectedAckResult(e, acks, k)]
            q == w.eng[e].queue
        IN /\ \A k \in 1..Len(w.log) :
                  w.log[k].req = request.id => w.log[k].results = expected
           /\ \A k \in 1..Len(q) : q[k].id = request.id => q[k].results = expected
           /\ \A s \in SubIds :
                  \A n \in SeqToSet(w.sub[s].retained) \cap SeqToSet(sub[s].retained) :
                      \A k \in 1..Len(acks) :
                          (acks[k].subscriptionId = s /\ expected[k] = Good)
                              => n > acks[k].sequenceNumber

\* the same notification is acknowledged twice in one request, which is
\* answered: the first entry is Good and the second BadSequenceNumberUnknown
C17_Witness ==
    \E e \in ActiveEngines : \E request \in AckRequests : \E i \in SortImpls :
        LET w == _on_PublishRequest(World, e, request, now, i)
        IN /\ Len(w.log) > 0
           /\ w.log[1].req = request.id
           /\ w.log[1].results = <<Good, BadSequenceNumberUnknown>>
           /\ eng[e].isSessionClosed

----------------------------------------------------------------------------
(* Acknowledgements and transfers: subscriptions move between the engines  *)
(* in both directions and keep what they retain                            *)

\* the state an operation leaves, every subscription kept as it is
Settle(w) ==
    /\ eng' = w.eng
    /\ sub' = w.sub
    /\ cbCount' = w.cb
    /\ err' = w.err
    /\ UNCHANGED others

AckPublishRequest(e, acks, sortImpl) ==
    /\ nextReq <= MaxRequests
    /\ Settle(_on_PublishRequest(World, e, Request(nextReq, acks, 0), now, sortImpl))
    /\ nextReq' = nextReq + 1
    /\ UNCHANGED now

AckAddSubscription(e, s) ==
    /\ CanAdd(e, s)
    /\ Settle(add_subscription(World, e, s))
    /\ UNCHANGED <<nextReq, now>>

AckProduce(s) ==
    /\ CanProduce(s)
    /\ Settle([World EXCEPT !.sub[s].pending = @ + 1])
    /\ UNCHANGED <<nextReq, now>>

\* a tick that finds a publish request to answer
AckSubscriptionTick(s) ==
    /\ CanTick(s)
    /\ eng[sub[s].publishEngine].queue # <<>>
    /\ Settle(subscription_tick(World, s))
    /\ UNCHANGED <<nextReq, now>>

\* a transfer from any engine to any other; the status change takes the
\* sequence number after the last data change
AckTransferSubscription(s, dest) ==
    /\ IsAttached(s)
    /\ dest # sub[s].publishEngine
    /\ sub[s].pending = 0
    /\ sub[s].nextSequenceNumber <= MaxSeq + 1
    /\ Settle(transferSubscription(World, s, dest, FALSE))
    /\ UNCHANGED <<nextReq, now>>

NextAck ==
    \/ \E e \in ActiveEngines, acks \in AckInputs, i \in SortImpls :
           AckPublishRequest(e, acks, i)
    \/ \E e \in Engines, s \in SubIds : AckAddSubscription(e, s)
    \/ \E s \in SubIds : AckProduce(s)
    \/ \E s \in SubIds : AckSubscriptionTick(s)
    \/ \E s \in SubIds, d \in Engines : AckTransferSubscription(s, d)

SpecAck == Init /\ [][NextAck]_vars

\* no sequence number up to n is listed
NoneUpTo(availableSequenceNumbers, n) ==
    \A k \in 1..Len(availableSequenceNumbers) : availableSequenceNumbers[k] > n

\* C18: once an acknowledgement of sequence number k for subscription S has
\* returned Good, no response for S lists a sequence number up to k in
\* availableSequenceNumbers: not the response the acknowledging request
\* receives, stashed before or not, not a response still stashed, and not
\* the notifications S retains for the responses to come.
C18_AcknowledgedNeverListedAgain ==
    \A e \in ActiveEngines : \A request \in AckRequests : \A i \in SortImpls :
        LET acks == request.subscriptionAcknowledgements
            w == _on_PublishRequest(World, e, request, now, i)
        IN \A k \in 1..Len(acks) :
               ExpectedAckResult(e, acks, k) = Good
               => LET s == acks[k].subscriptionId
                      n == acks[k].sequenceNumber
                  IN /\ \A j \in 1..Len(w.log) :
                            w.log[j].subscriptionId = s
                                => NoneUpTo(w.log[j].availableSequenceNumbers, n)
                     /\ \A j \in 1..Len(w.eng[e].responses) :
                            w.eng[e].responses[j].subscriptionId = s
                                => NoneUpTo(w.eng[e].responses[j].availableSequenceNumbers, n)
                     /\ NoneUpTo(w.sub[s].retained, n)

\* the messages of a sequence that are for subscription s, in their order
MessagesFor(s, q) ==
    SelectSeqBy(q, {i \in 1..Len(q) : q[i].subscriptionId = s})

\* the message as the number it carries and what it carries
Numbered(q) ==
    [i \in 1..Len(q) |-> [sequenceNumber |-> q[i].sequenceNumber,
                          notificationData |-> q[i].notificationData]]

\* the messages an operation has sent for s through send_notification_message:
\* those it delivered, then those it stashed (a publish request that finds a
\* stashed response delivers that one and sends none)
SentFor(s, o) ==
    IF o.op = "_on_PublishRequest" /\ eng[o.e].responses # <<>> THEN <<>>
    ELSE Numbered(MessagesFor(s, o.w.log))
         \o Numbered(MessagesFor(s, SubSeq(o.w.eng[o.e].responses,
                                           Len(eng[o.e].responses) + 1,
                                           Len(o.w.eng[o.e].responses))))

\* how many of the first k messages carry a notification
Notifications(m, k) ==
    Cardinality({j \in 1..k : m[j].notificationData # "KeepAlive"})

\* two ticks of a subscription in a row, n notifications produced in between
TwoTicks(s, n) ==
    LET w1 == subscription_tick(World, s)
    IN IF w1.sub[s].state = CLOSED THEN w1
       ELSE subscription_tick([w1 EXCEPT !.sub[s].pending = @ + n], s)

C20_MapEntryHasBackReference ==
    /\ \A e \in Engines : \A s \in eng[e].subs : sub[s].publishEngine = e
    /\ \A e1 \in Engines : \A e2 \in Engines \ {e1} :
           eng[e1].subs \cap eng[e2].subs = {}
    /\ \A e \in Engines : \A s \in eng[e].subs :
           LET w == detach_subscription(World, e, s)
           IN /\ w.err = "none"
              /\ s \notin w.eng[e].subs
              /\ w.sub[s].publishEngine = NoEngine
              /\ \A d \in Engines : s \notin w.eng[d].subs
    /\ \A e \in Engines : \A s \in SubIds :
           LET w == add_subscription(World, e, s)
           IN /\ \A d \in Engines : \A t \in w.eng[d].subs :
                     w.sub[t].publishEngine = d
              /\ w.err # "none" => w.eng = eng

\* one subscription has sent a notification and was detached since, the
\* other was transferred to the peer engine
C20_Witness ==
    \E s \in SubIds : \E t \in SubIds \ {s} :
        /\ sub[s].state # CLOSED
        /\ sub[s].nextSequenceNumber > 1
        /\ sub[s].publishEngine = NoEngine
        /\ \A e \in Engines : s \notin eng[e].subs
        /\ t \in eng[2].subs
        /\ sub[t].publishEngine = 2


----------------------------------------------------------------------------
(* C21: transferSubscription *)

\* how often a trace of calls names the call of subscription s
CallCount(calls, name, s) ==
    Cardinality({i \in 1..Len(calls) : calls[i] = <<name, s>>})

\* the status change of notifyTransfer as the source engine has routed it: to
\* its oldest pending request, or to its stash
TransferNotified(w, s, src) ==
    LET statusChange ==
            [serviceResult |-> Good, subscriptionId |-> s,
             sequenceNumber |-> sub[s].nextSequenceNumber,
             availableSequenceNumbers |-> sub[s].retained,
             moreNotifications |-> FALSE, notificationData |-> "StatusChange"]
    IN IF eng[src].queue = <<>>
       THEN /\ w.eng[src].responses = Append(eng[src].responses, statusChange)
            /\ w.log = <<>>
       ELSE /\ w.eng[src].responses = eng[src].responses
            /\ w.eng[src].queue = Tail(eng[src].queue)
            /\ w.log = <<Delivery([w EXCEPT !.eng[src].queue = Tail(eng[src].queue)],
                                  src, Head(eng[src].queue), statusChange)>>

\* C21: transferSubscription(S, dest, sendInitialValues) calls S.notifyTransfer
\* first, while S is attached to the source engine (the status change reaches
\* the source engine's oldest request or its stash, with the sequence numbers
\* S retains); it leaves S out of the source map and in the map of dest with
\* publishEngine = dest, has called resetLifeTimeCounter once, and
\* resendInitialValues once if sendInitialValues and not at all otherwise.
C21_TransferSubscription ==
    \A s \in SubIds : \A dest \in Engines : \A sendInitialValues \in BOOLEAN :
        CanTransfer(s, dest)
        => LET src == sub[s].publishEngine
               w == transferSubscription(World, s, dest, sendInitialValues)
           IN /\ w.err = "none"
              /\ w.calls[1] = <<"notifyTransfer", s>>
              /\ TransferNotified(w, s, src)
              /\ w.eng[dest].queue = eng[dest].queue
              /\ w.eng[dest].responses = eng[dest].responses
              /\ s \notin w.eng[src].subs
              /\ s \in w.eng[dest].subs
              /\ w.sub[s].publishEngine = dest
              /\ CallCount(w.calls, "notifyTransfer", s) = 1
              /\ CallCount(w.calls, "resetLifeTimeCounter", s) = 1
              /\ w.sub[s].timeToExpiration = MaxLifetime
              /\ CallCount(w.calls, "resendInitialValues", s)
                     = IF sendInitialValues THEN 1 ELSE 0

\* a subscription is in the map of the peer engine and the engine it left
\* holds its status change in the stash
C21_Witness ==
    \E s \in SubIds :
        /\ s \in eng[2].subs
        /\ sub[s].publishEngine = 2
        /\ \E i \in 1..Len(eng[1].responses) :
               /\ eng[1].responses[i].subscriptionId = s
               /\ eng[1].responses[i].notificationData = "StatusChange"


----------------------------------------------------------------------------
(* C22: transferSubscriptions *)

\* the subscriptions a trace of calls has told of their transfer, in order
NotifiedInOrder(calls) ==
    LET told == SelectSeqBy(calls, {i \in 1..Len(calls) : calls[i][1] = "notifyTransfer"})
    IN [i \in 1..Len(told) |-> told[i][2]]

\* C22: transferSubscriptions(src, dest) moves every subscription of src to
\* dest, in the order of the map: afterwards src has no subscription, the map
\* of dest holds the subscriptions it had and every subscription that was in
\* src, each with publishEngine = dest, and resendInitialValues was called for
\* none of them.
C22_TransferSubscriptions ==
    \A src \in Engines : \A dest \in Engines :
        CanTransferAll(src, dest)
        => LET w == transferSubscriptions(World, src, dest)
           IN /\ w.err = "none"
              /\ subscriptionCount(w, src) = 0
              /\ w.eng[dest].subs = eng[dest].subs \cup eng[src].subs
              /\ \A s \in w.eng[dest].subs : w.sub[s].publishEngine = dest
              /\ NotifiedInOrder(w.calls) = SetToSortedSeq(eng[src].subs)
              /\ \A s \in SubIds :
                     /\ CallCount(w.calls, "resendInitialValues", s) = 0
                     /\ CallCount(w.calls, "resetLifeTimeCounter", s)
                            = IF s \in eng[src].subs THEN 1 ELSE 0

\* both subscriptions are in the map of the peer engine and the engine they
\* left holds their status changes in the order of the map
C22_Witness ==
    /\ eng[1].subs = {}
    /\ eng[2].subs = SubIds
    /\ Len(eng[1].responses) = NumSubs
    /\ \A i \in 1..NumSubs :
           /\ eng[1].responses[i].subscriptionId = i
           /\ eng[1].responses[i].notificationData = "StatusChange"


----------------------------------------------------------------------------
(* C23: send_keep_alive_response *)

\* the sequence numbers a subscription may announce
FutureSequenceNumbers == 1..(MaxSeq + 1)

\* C23: send_keep_alive_response returns false and changes nothing (no
\* callback, no stashed response) when no publish request is pending or the
\* subscription id is not in the map of the engine; otherwise it returns true
\* and has answered the oldest pending request, and that one only, with a
\* response that carries no notification, moreNotifications false and the
\* future sequence number it was given.
C23_KeepAlive ==
    \A e \in Engines : \A s \in SubIds : \A n \in FutureSequenceNumbers :
        LET w == send_keep_alive_response(World, e, s, n)
        IN IF s \notin eng[e].subs \/ eng[e].queue = <<>>
           THEN /\ ~KeepAliveSent(World, e, s)
                /\ w = World
           ELSE /\ KeepAliveSent(World, e, s)
                /\ w.err = "none"
                /\ w.eng = [eng EXCEPT ![e].queue = Tail(@)]
                /\ w.sub = sub
                /\ w.cb = [cbCount EXCEPT ![Head(eng[e].queue).id] = @ + 1]
                /\ Len(w.log) = 1
                /\ w.log[1].req = Head(eng[e].queue).id
                /\ w.log[1].requestHandle = Head(eng[e].queue).requestHandle
                /\ w.log[1].serviceResult = Good
                /\ w.log[1].subscriptionId = s
                /\ w.log[1].notificationData = "KeepAlive"
                /\ w.log[1].moreNotifications = FALSE
                /\ w.log[1].sequenceNumber = n

\* a subscription has answered the only pending request with a keep-alive, and
\* has sent nothing else yet
C23_Witness ==
    \E s \in SubIds : \E r \in ReqIds :
        /\ s \in eng[1].subs
        /\ sub[s].messageSent
        /\ sub[s].nextSequenceNumber = 1
        /\ sub[s].state = NORMAL
        /\ cbCount[r] = 1
        /\ eng[1].queue = <<>>
        /\ eng[1].responses = <<>>


----------------------------------------------------------------------------
(* C24: shutdown *)

\* C24: shutdown is permitted only when the engine has no subscription:
\* otherwise its assertion fails and no queue has changed; when it succeeds it
\* empties the pending request queue, the stashed-response queue and the
\* closed-drain list, and invokes no callback.
C24_Shutdown ==
    \A e \in Engines :
        LET w == shutdown(World, e)
        IN /\ w.log = <<>>
           /\ w.cb = cbCount
           /\ w.sub = sub
           /\ IF subscriptionCount(World, e) # 0
              THEN /\ w.err = "shutdown"
                   /\ w.eng = eng
              ELSE /\ w.err = "none"
                   /\ w.eng = [eng EXCEPT ![e].queue = <<>>,
                                          ![e].responses = <<>>,
                                          ![e].closed = <<>>]

\* an engine without subscription holds a pending request and a closed
\* subscription to drain, which a shutdown discards
C24_Witness ==
    \E e \in ActiveEngines :
        /\ eng[e].subs = {}
        /\ eng[e].queue # <<>>
        /\ eng[e].closed # <<>>
        /\ shutdown(World, e).eng[e].queue = <<>>
        /\ shutdown(World, e).cb = cbCount


----------------------------------------------------------------------------
(* C25: the order of the steps of an admission *)

\* a feed of the engine has a subscription to serve: a starving one, or a
\* closed one with notifications left
FeedWaiting(e, sortImpl) ==
    \/ StarvingSubscription(World, e, sortImpl) # NoSub
    \/ /\ eng[e].closed # <<>>
       /\ hasPendingNotifications(World, Head(eng[e].closed))

\* the engine admits the next request with subscriptions attached and its
\* queue at the limit
AdmitsAtLimit(e) ==
    /\ eng[e].responses = <<>>
    /\ ~eng[e].isSessionClosed
    /\ subscriptionCount(World, e) # 0
    /\ pendingPublishRequestCount(World, e) = MaxPublishRequestInQueue

\* C25: a publish request admitted with subscriptions attached is enqueued,
\* then the late subscriptions are fed, then the closed ones, and the limit is
\* enforced last, on the queue the feeds leave: when the queue was at
\* maxPublishRequestInQueue and a feed consumes a request, the oldest request
\* is answered with a notification and no request receives
\* BadTooManyPublishRequests; when no feed consumes a request, the oldest one
\* receives BadTooManyPublishRequests.
C25_FeedsBeforeEviction ==
    \A e \in ActiveEngines : \A in \in PublishInputs :
        AdmitsAtLimit(e)
        => LET w == _on_PublishRequest(World, e, in[1], now, in[2])
               oldest == Head(eng[e].queue)
           IN /\ w.err = "none"
              /\ Len(w.log) >= 1
              /\ w.log[1].req = oldest.id
              /\ in[1].id \in QueueIds(w.eng[e].queue)
              /\ IF FeedWaiting(e, in[2])
                 THEN /\ w.log[1].serviceResult = Good
                      /\ w.log[1].subscriptionId # NoSub
                      /\ \A i \in 1..Len(w.log) :
                             w.log[i].serviceResult # BadTooManyPublishRequests
                      /\ Len(w.eng[e].queue) <= MaxPublishRequestInQueue
                 ELSE /\ Len(w.log) = 1
                      /\ w.log[1].serviceResult = BadTooManyPublishRequests
                      /\ Len(w.eng[e].queue) = MaxPublishRequestInQueue

\* the queue is at the limit while a closed subscription has notifications
\* left: the next request makes the oldest one carry a notification
C25_Witness ==
    \E e \in ActiveEngines : \E in \in PublishInputs :
        /\ AdmitsAtLimit(e)
        /\ FeedWaiting(e, in[2])
        /\ LET w == _on_PublishRequest(World, e, in[1], now, in[2])
           IN /\ Len(w.log) = 1
              /\ w.log[1].req = Head(eng[e].queue).id
              /\ w.log[1].notificationData = "DataChange"
              /\ Len(w.eng[e].queue) = MaxPublishRequestInQueue


----------------------------------------------------------------------------
(* C26: the request handle and the acknowledgement results of a response *)

\* the pending request with id r, as the queue of its engine holds it
Pending(r) ==
    CHOOSE publishData \in UNION {SeqToSet(eng[e].queue) : e \in Engines} :
        publishData.id = r

\* every response of the trace carries the handle and the results of the
\* request it answers: those of the request in hand, or those kept in the
\* queue with the request
Stamped(log, request, results) ==
    \A k \in 1..Len(log) :
        IF log[k].req = request.id
        THEN /\ log[k].requestHandle = request.requestHandle
             /\ log[k].results = results
        ELSE /\ log[k].req \in PendingIds(World)
             /\ log[k].requestHandle = Pending(log[k].req).requestHandle
             /\ log[k].results = Pending(log[k].req).results

\* a request that is none: its id is the id of no request
NoRequest == Request(0, <<>>, 0)

\* C26: every response passed to the callback of a request (a notification,
\* a keep-alive, a stashed response, a status-only error) carries in
\* responseHeader.requestHandle the request handle of that request and in
\* results the acknowledgement results computed for that request, never those
\* of another one; a request that is queued keeps its own handle and results.
C26_ResponseStampedForItsRequest ==
    /\ \A e \in ActiveEngines : \A in \in PublishInputs :
           LET w == _on_PublishRequest(World, e, in[1], now, in[2])
               results == AckResults(World, e, in[1].subscriptionAcknowledgements)
               q == w.eng[e].queue
           IN /\ Stamped(w.log, in[1], results)
              /\ \A k \in 1..Len(q) :
                     q[k].id = in[1].id
                     => /\ q[k].requestHandle = in[1].requestHandle
                        /\ q[k].results = results
    /\ \A o \in Outcomes : o.r = 0 => Stamped(o.w.log, NoRequest, <<>>)
    /\ \A r \in PendingIds(World) : Pending(r).requestHandle = RequestHandle(r)

\* two requests are pending with different acknowledgement results, and a
\* session close answers each with its own
C26_Witness ==
    \E e \in ActiveEngines :
        /\ Len(eng[e].queue) = 2
        /\ eng[e].queue[1].results # eng[e].queue[2].results
        /\ LET w == onSessionClose(World, e)
           IN /\ Len(w.log) = 2
              /\ w.log[1].results = eng[e].queue[1].results
              /\ w.log[2].results = eng[e].queue[2].results
              /\ w.log[1].requestHandle # w.log[2].requestHandle


----------------------------------------------------------------------------
(* C27: add_subscription and detach_subscription against their contract *)

\* the Subscription objects add_subscription may be given: an object has an
\* id and a back-reference, and its id may be the id of another object
Subscriptions == [id : SubIds, publishEngine : {NoEngine} \cup Engines]

\* subscription.publishEngine = subscription.publishEngine || self
PublishEngineSet(e, subscription) ==
    IF subscription.publishEngine = NoEngine THEN e ELSE subscription.publishEngine

\* the assertion of add_subscription that fails, if one does
AddAssertion(w, e, subscription) ==
    IF PublishEngineSet(e, subscription) # e THEN "add_subscription:publishEngine"
    ELSE IF subscription.id \in w.eng[e].subs THEN "add_subscription:id"
    ELSE "none"

\* the object of the map entry s
Attached(s) == [id |-> s, publishEngine |-> sub[s].publishEngine]

\* a detach against the contract fails and changes neither the map nor the
\* back-reference; so does an add of a subscription of the map
ViolationsOnTheMapFail ==
    \A e \in Engines : \A s \in SubIds :
        /\ (sub[s].publishEngine # e \/ s \notin eng[e].subs)
           => LET w == detach_subscription(World, e, s)
              IN w.err # "none" /\ w.eng = eng /\ w.sub = sub
        /\ (sub[s].publishEngine \notin {NoEngine, e} \/ s \in eng[e].subs)
           => LET w == add_subscription(World, e, s)
              IN w.err # "none" /\ w.eng = eng /\ w.sub = sub
        /\ LET w == add_subscription(World, e, s)
           IN /\ w.err = AddAssertion(World, e, Attached(s))
              /\ w.sub[s].publishEngine = PublishEngineSet(e, Attached(s))

\* add_subscription refuses a subscription and leaves its back-reference alone
AddRefusedUnchanged ==
    \A e \in Engines : \A subscription \in Subscriptions :
        (subscription.publishEngine \notin {NoEngine, e}
            \/ subscription.id \in eng[e].subs)
        => /\ AddAssertion(World, e, subscription) # "none"
           /\ PublishEngineSet(e, subscription) = subscription.publishEngine

\* C27: an add_subscription or a detach_subscription against the contract
\* (detaching a subscription this engine does not own, adding a subscription
\* another engine owns, adding a subscription whose id is in the map) fails
\* by assertion and leaves the map of the engine and the publishEngine of the
\* subscription as they were.
C27_ViolationsChangeNothing == ViolationsOnTheMapFail /\ AddRefusedUnchanged


----------------------------------------------------------------------------
(* C28: the request has left the queue when its callback runs *)

\* the paths that answer through _cancelPendingPublishRequest
CancellationStatus == {BadSessionClosed, BadSecureChannelClosed, BadNoSubscription}

\* no response of the paths given was delivered to a request still queued
DequeuedBeforeCallback(statusCodes) ==
    \A o \in Outcomes : \A k \in 1..Len(o.w.log) :
        o.w.log[k].serviceResult \in statusCodes => ~o.w.log[k].queued

\* on the paths that shift or filter the queue first (a notification, a
\* keep-alive, a stashed response, the eviction, the timeout purge) the
\* request has left the queue when its callback runs
ShiftedPathsDequeueFirst ==
    DequeuedBeforeCallback({Good, BadTooManyPublishRequests, BadTimeout})

\* C28: when the callback of a request is invoked the request is no longer
\* in the pending request queue, on every delivery path: the pairing with a
\* notification, the eviction, the timeout purge, and the cancellation by
\* session close, channel change or close of the last subscription.
C28_DequeuedWhenCalledBack ==
    /\ ShiftedPathsDequeueFirst
    /\ DequeuedBeforeCallback(CancellationStatus)


----------------------------------------------------------------------------
(* C29: a closed session stays closed *)

\* C29: once onSessionClose has been called on an engine, isSessionClosed is
\* true after every later operation, and the pending request queue of the
\* engine is empty in every later state.
C29_ClosedSessionStaysClosed ==
    /\ [](\A e \in Engines : eng[e].isSessionClosed => eng[e].queue = <<>>)
    /\ [][\A e \in Engines :
              eng[e].isSessionClosed
              => eng'[e].isSessionClosed /\ eng'[e].queue = <<>>]_vars

\* the session is closed, a subscription of the engine has a notification
\* to send, and the next publish request is answered and not enqueued
C29_Witness ==
    \E e \in ActiveEngines : \E s \in eng[e].subs : \E in \in PublishInputs :
        /\ eng[e].isSessionClosed
        /\ hasPendingNotifications(World, s)
        /\ cbCount # [r \in ReqIds |-> 0]
        /\ LET w == _on_PublishRequest(World, e, in[1], now, in[2])
           IN /\ w.eng[e].queue = <<>>
              /\ w.eng[e].isSessionClosed
              /\ w.cb[in[1].id] = 1


----------------------------------------------------------------------------
(* C30: what add_subscription and detach_subscription leave alone *)

\* an engine without its subscription map
Queues(engine) ==
    [queue |-> engine.queue, responses |-> engine.responses,
     closed |-> engine.closed, isSessionClosed |-> engine.isSessionClosed]

\* world w differs from the state in the maps and in the publishEngine of
\* subscription s at most, and no callback has run
OnlyMapAndBackReference(w, s) ==
    /\ \A e \in Engines : Queues(w.eng[e]) = Queues(eng[e])
    /\ [w.sub EXCEPT ![s].publishEngine = sub[s].publishEngine] = sub
    /\ w.cb = cbCount
    /\ w.log = <<>>

\* add_subscription and detach_subscription, whether they succeed or fail
\* by assertion, change the map and the back-reference only
AddAndDetachFrame ==
    \A e \in Engines : \A s \in SubIds :
        /\ OnlyMapAndBackReference(add_subscription(World, e, s), s)
        /\ OnlyMapAndBackReference(detach_subscription(World, e, s), s)
        /\ s \in eng[e].subs
           => LET w == detach_subscription(World, e, s)
              IN /\ w.err = "none"
                 /\ w.eng[e].queue = eng[e].queue
                 /\ PendingIds(w) = PendingIds(World)

\* subscription s is the last one of its engine and may be transferred to dest
LastTransferred(s, dest) ==
    /\ CanTransfer(s, dest)
    /\ eng[sub[s].publishEngine].subs = {s}

\* C30 as stated: the requests pending on a source engine whose last
\* subscription is transferred away all stay queued and unanswered.
C30_TransferLeavesRequestsQueued ==
    /\ AddAndDetachFrame
    /\ \A s \in SubIds : \A dest \in Engines : \A b \in BOOLEAN :
           LastTransferred(s, dest)
           => LET src == sub[s].publishEngine
                  w == transferSubscription(World, s, dest, b)
              IN /\ subscriptionCount(w, src) = 0
                 /\ w.eng[src].queue = eng[src].queue
                 /\ w.log = <<>>

\* C30: detach_subscription and add_subscription change only the subscription
\* map and the publishEngine of the subscription: the pending request queue,
\* the stashed-response queue, the closed-drain list and isSessionClosed of
\* both engines are unchanged and no request is answered.  When the last
\* subscription of a source engine is transferred away, notifyTransfer answers
\* the oldest pending request of the source engine with the status change, or
\* stashes it when no request is pending; the other pending requests stay
\* queued and unanswered with zero subscriptions attached.
C30_OnlyMapAndBackReference ==
    /\ AddAndDetachFrame
    /\ \A s \in SubIds : \A dest \in Engines : \A b \in BOOLEAN :
           LastTransferred(s, dest)
           => LET src == sub[s].publishEngine
                  w == transferSubscription(World, s, dest, b)
              IN /\ subscriptionCount(w, src) = 0
                 /\ TransferNotified(w, s, src)
                 /\ w.eng[src].closed = eng[src].closed
                 /\ w.eng[src].isSessionClosed = eng[src].isSessionClosed
                 /\ Queues(w.eng[dest]) = Queues(eng[dest])
                 /\ \A r \in QueueIds(w.eng[src].queue) : w.cb[r] = cbCount[r]

\* the last subscription of the engine has left for the peer engine and a
\* request is still pending on the engine, which has no subscription
C30_Witness ==
    /\ eng[1].subs = {}
    /\ eng[2].subs # {}
    /\ eng[1].queue # <<>>
    /\ \A k \in 1..Len(eng[1].queue) : cbCount[eng[1].queue[k].id] = 0
    /\ \E r \in ReqIds : cbCount[r] = 1
    /\ ~eng[1].isSessionClosed


----------------------------------------------------------------------------
(* C31: the available sequence numbers of a response *)

\* the parameters send_notification_message may be given
SendParams ==
    [subscriptionId : SubIds, sequenceNumber : FutureSequenceNumbers,
     notificationData : {"DataChange", "StatusChange", "KeepAlive"},
     moreNotifications : BOOLEAN]

\* the response send_notification_message has built: delivered to the oldest
\* request, or stashed last
Built(w, e) ==
    IF w.log # <<>> THEN w.log[Len(w.log)].availableSequenceNumbers
    ELSE w.eng[e].responses[Len(w.eng[e].responses)].availableSequenceNumbers

\* C31: a response send_notification_message builds for a subscription id
\* that is in the map of the engine carries getAvailableSequenceNumbers() of
\* that subscription as it is when the response is built; a response built
\* for an id that is not in the map (a closed subscription that is drained)
\* carries an empty availableSequenceNumbers.
C31_AvailableSequenceNumbers ==
    /\ \A e \in Engines : \A param \in SendParams : \A force \in BOOLEAN :
           (force \/ eng[e].queue # <<>>)
           => LET w == send_notification_message(World, e, param, force)
              IN /\ w.err = "none"
                 /\ Built(w, e) = IF param.subscriptionId \in eng[e].subs
                                  THEN getAvailableSequenceNumbers(World, param.subscriptionId)
                                  ELSE <<>>
    /\ \A e \in ActiveEngines :
           (eng[e].closed # <<>> /\ eng[e].queue # <<>>
               /\ hasPendingNotifications(World, Head(eng[e].closed)))
           => Built(_feed_closed_subscription(World, e), e) = <<>>

\* the last subscription of an engine retains a notification, has another
\* one to send and is closed while a request is pending: the drain answers
\* the request with an empty list
C31_Witness ==
    \E e \in ActiveEngines : \E s \in SubIds :
        /\ eng[e].subs = {s}
        /\ sub[s].retained # <<>>
        /\ hasPendingNotifications(World, s)
        /\ eng[e].queue # <<>>
        /\ LET w == terminate(World, s)
           IN /\ Len(w.log) >= 1
              /\ w.log[1].subscriptionId = s
              /\ w.log[1].notificationData = "DataChange"
              /\ w.log[1].availableSequenceNumbers = <<>>


----------------------------------------------------------------------------
(* C32: the drain loop of on_close_subscription ends *)

\* the world in which on_close_subscription(s) enters its loop
\* "while (self._feed_closed_subscription()) { }"
LoopEntry(s) ==
    LET e == sub[s].publishEngine
        w == [World EXCEPT !.sub[s].state = CLOSED]
        w1 == IF hasPendingNotifications(w, s)
              THEN [w EXCEPT !.eng[e].closed = Append(@, s)]
              ELSE w
    IN [w1 EXCEPT !.eng[e].subs = @ \ {s}]

\* one call of _feed_closed_subscription in world w: when it returns true it
\* has removed the head of the list and answered one request; it returns
\* false, and answers nothing, when no request is pending, the list is empty
\* or the head it removes has nothing to send
CallShortensList(w, e) ==
    LET after == _feed_closed_subscription(w, e)
    IN IF FeedClosedProcessed(w, e)
       THEN /\ after.eng[e].closed = Tail(w.eng[e].closed)
            /\ Len(after.log) = Len(w.log) + 1
            /\ Len(after.eng[e].queue) = Len(w.eng[e].queue) - 1
       ELSE /\ \/ w.eng[e].queue = <<>>
               \/ w.eng[e].closed = <<>>
               \/ ~hasPendingNotifications(w, Head(w.eng[e].closed))
            /\ after.log = w.log
            /\ after.eng[e].queue = w.eng[e].queue
            /\ Len(after.eng[e].closed) <= Len(w.eng[e].closed)

RECURSIVE LoopCalls(_, _, _)
\* the calls the loop makes from world w, every one of them shortening the
\* list; -1 when a call does not, or when more than n calls are made
LoopCalls(w, e, n) ==
    IF n = 0 \/ ~CallShortensList(w, e) THEN -1
    ELSE IF ~FeedClosedProcessed(w, e) THEN 1
    ELSE LET rest == LoopCalls(_feed_closed_subscription(w, e), e, n - 1)
         IN IF rest = -1 THEN -1 ELSE rest + 1

\* C32: the drain loop of on_close_subscription always ends: every call of
\* _feed_closed_subscription that returns true has removed one entry from the
\* closed-drain list, and a call returns false as soon as no request is
\* pending, the list is empty or the head it removes has no notification to
\* send; the loop makes at most one call more than the list has entries.
C32_DrainLoopEnds ==
    /\ \A e \in Engines : CallShortensList(World, e)
    /\ \A s \in SubIds :
           (CanTick(s) /\ eng[sub[s].publishEngine].subs = {s})
           => LET e == sub[s].publishEngine
                  entry == LoopEntry(s)
                  calls == LoopCalls(entry, e, Len(entry.eng[e].closed) + 1)
              IN /\ calls >= 1
                 /\ ~FeedClosedProcessed(FeedClosedWhile(entry, e), e)
                 /\ FeedClosedWhile(entry, e).log
                        = SubSeq(terminate(World, s).log, 1, calls - 1)

\* the last subscription is closed with a notification to send while another
\* closed subscription waits and two requests are pending: the loop makes
\* three calls, two of which answer a request
C32_Witness ==
    \E s \in SubIds :
        /\ CanTick(s)
        /\ eng[sub[s].publishEngine].subs = {s}
        /\ LoopCalls(LoopEntry(s), sub[s].publishEngine, 3) = 3
        /\ Len(terminate(World, s).log) = 2
        /\ terminate(World, s).eng[sub[s].publishEngine].closed = <<>>


----------------------------------------------------------------------------
(* perform_findServersRequest (lib/findservers.js).  The client is an      *)
(* OPCUAClientBase: each of connect, findServers and disconnect ends by    *)
(* calling the callback it was given, once, with the outcome the server    *)
(* and the network decide.                                                 *)

Null == "null"

\* the value of an argument that was not passed
Undefined == [defined |-> FALSE, list |-> <<>>]

\* an array of servers
Servers(list) == [defined |-> TRUE, list |-> list]

\* the discovery endpoints asked
EndpointUrls ==
    {"opc.tcp://a:4840", "opc.tcp://b:4840", "opc.tcp://c:4840", "opc.tcp://d:4840"}

\* the errors a client operation may end with
ClientErrors == {"ECONNREFUSED", "BadTimeout"}

\* what findServers may return as servers
ServerLists ==
    {Undefined, Servers(<<>>), Servers(<<"urn:s1">>), Servers(<<"urn:s2">>),
     Servers(<<"urn:s1", "urn:s2">>)}

\* callback(err, servers): the call is recorded with the state of the client
InvokeCallback(f, e, servers) ==
    [f EXCEPT !.calls = Append(@, [err |-> e, servers |-> servers,
                                   disconnected |-> f.disconnected])]

\* the call has created its client and asked it to connect
perform_findServersRequest(discovery_server_endpointUrl) ==
    [pc |-> "connect", url |-> discovery_server_endpointUrl,
     connectErr |-> Null, findErr |-> Null, found |-> Undefined,
     err |-> Null, servers |-> Undefined,
     disconnected |-> FALSE, calls |-> <<>>]

\* a connect callback that reports a connect failure at once
ConnectCallback_report(f, e) ==
    IF e = Null
    THEN [f EXCEPT !.pc = "findServers", !.connectErr = e]
    ELSE InvokeCallback([f EXCEPT !.pc = "done", !.connectErr = e], e, Undefined)

\* the callback given to client.connect
ConnectCallback(f, e) ==
    IF e = Null
    THEN [f EXCEPT !.pc = "findServers", !.connectErr = e]
    ELSE [f EXCEPT !.pc = "disconnect", !.connectErr = e, !.err = e]

\* the callback given to client.findServers
FindServersCallback(f, e, servers) ==
    [f EXCEPT !.pc = "disconnect", !.findErr = e, !.found = servers,
              !.err = e, !.servers = servers]

\* the callback given to client.disconnect, called when the client has
\* disconnected
DisconnectCallback(f) ==
    InvokeCallback([f EXCEPT !.pc = "done", !.disconnected = TRUE], f.err, f.servers)

InitFind ==
    /\ eng = [e \in Engines |-> NewEngine]
    /\ sub \in InitSubs
    /\ cbCount = [r \in ReqIds |-> 0]
    /\ nextReq = 1
    /\ now = 1
    /\ err = "none"
    /\ fs \in {perform_findServersRequest(u) : u \in EndpointUrls}
    /\ mi = NotCreated
    /\ sm = NotCreated
    /\ arr = NotCreated
    /\ reg = NotCreated
    /\ nid = NotCreated

ConnectCompletes(e) ==
    /\ fs.pc = "connect"
    /\ fs' = ConnectCallback(fs, e)
    /\ UNCHANGED <<engineVars, mi, sm, arr, reg, nid>>

FindServersCompletes(e, servers) ==
    /\ fs.pc = "findServers"
    /\ fs' = FindServersCallback(fs, e, servers)
    /\ UNCHANGED <<engineVars, mi, sm, arr, reg, nid>>

DisconnectCompletes ==
    /\ fs.pc = "disconnect"
    /\ fs' = DisconnectCallback(fs)
    /\ UNCHANGED <<engineVars, mi, sm, arr, reg, nid>>

NextFind ==
    \/ \E e \in {Null} \cup ClientErrors : ConnectCompletes(e)
    \/ \E e \in {Null} \cup ClientErrors, servers \in ServerLists :
           FindServersCompletes(e, servers)
    \/ DisconnectCompletes

\* every operation of the client ends
SpecFind == InitFind /\ [][NextFind]_vars /\ WF_vars(NextFind)

\* the callback is called at most once, with the client disconnected, and
\* with the connect error and no server list, or with what findServers
\* returned
CalledBackAfterDisconnect ==
    /\ Len(fs.calls) <= 1
    /\ Len(fs.calls) = 1 <=> fs.pc = "done"
    /\ \A k \in 1..Len(fs.calls) :
           /\ fs.calls[k].disconnected
           /\ IF fs.connectErr # Null
              THEN fs.calls[k].err = fs.connectErr /\ fs.calls[k].servers = Undefined
              ELSE fs.calls[k].err = fs.findErr /\ fs.calls[k].servers = fs.found

\* C33: perform_findServersRequest invokes its callback exactly once, and
\* only after the disconnect of the client has completed, on both paths: on
\* a connect failure with the connect error and no server list, on a connect
\* success with the error and the servers findServers returned.
C33_CallbackOnceAfterDisconnect ==
    /\ []CalledBackAfterDisconnect
    /\ <>(fs.pc = "done")

\* the connect succeeded, findServers returned two servers, and the callback
\* has received them after the disconnect
C33_Witness ==
    /\ fs.pc = "done"
    /\ fs.connectErr = Null
    /\ fs.calls = <<[err |-> Null, servers |-> Servers(<<"urn:s1", "urn:s2">>),
                     disconnected |-> TRUE]>>


----------------------------------------------------------------------------
(* ClientMonitoredItem._monitor                                            *)
(* (lib/server/installOptionalCpuAndMemoryUsageNode.js).  The session ends *)
(* createMonitoredItems by calling its callback once, with a transport     *)
(* error or with a response that holds one result.                         *)

\* the client handles a subscription hands out before this item
MaxClientHandle == 2

\* itemToMonitor.attributeId
AttributeIds == {"Value", "EventNotifier", "BrowseName"}

NoFilter == "none"

\* monitoringParameters.filter, by filter._schema.name
Filters == {NoFilter, "EventFilter", "DataChangeFilter", "AggregateFilter"}

\* the status codes of a monitored item result
ItemStatusCodes ==
    {Good, "BadNodeIdUnknown", "BadFilterNotAllowed", "BadMonitoredItemFilterUnsupported"}

\* the errors createMonitoredItems may end with
TransportErrors == {"BadConnectionClosed", "BadRequestTimeout"}

\* a monitored item as its constructor leaves it, on a subscription that has
\* handed out lastClientHandle handles
ClientMonitoredItem(attributeId, filter, lastClientHandle) ==
    [pc |-> "created",
     attributeId |-> attributeId,
     given |-> filter,                  \* the filter the item was created with
     filter |-> filter,                 \* monitoringParameters.filter
     clientHandle |-> 0,
     lastClientHandle |-> lastClientHandle,
     monitoredItems |-> {},             \* subscription.monitoredItems (handles)
     requestSent |-> FALSE,
     responseErr |-> Null,              \* what createMonitoredItems ended with
     statusCode |-> Null,
     events |-> <<>>,                   \* the events the item has emitted
     doneCalls |-> <<>>]                \* the argument of each call of done

\* self.emit(name)
Emit(m, name) == [m EXCEPT !.events = Append(@, name)]

\* handle_error, done being a function
handle_error(m, err_message) ==
    [m EXCEPT !.pc = "done", !.doneCalls = Append(@, err_message)]

\* _monitor(done) up to the request it sends
_monitor(m) ==
    LET m1 == [m EXCEPT !.lastClientHandle = @ + 1, !.clientHandle = m.lastClientHandle + 1]
    IN IF m1.attributeId = "EventNotifier"
       THEN LET m2 == [m1 EXCEPT !.filter = IF @ = NoFilter THEN "EventFilter" ELSE @]
            IN IF m2.filter # "EventFilter"
               THEN handle_error(m2, "Mismatch between attributeId and filter")
               ELSE [m2 EXCEPT !.pc = "waiting", !.requestSent = TRUE]
       ELSE IF m1.attributeId = "Value"
       THEN [m1 EXCEPT !.pc = "waiting", !.requestSent = TRUE]
       ELSE IF m1.filter # NoFilter
       THEN handle_error(m1, "no filter expected")
       ELSE [m1 EXCEPT !.pc = "waiting", !.requestSent = TRUE]

\* a callback that registers the item whatever the status of the result
createMonitoredItemsCallback_register(m, e, statusCode) ==
    LET m1 == [m EXCEPT !.responseErr = e, !.pc = "done"]
    IN IF e # Null
       THEN [Emit(Emit(m1, "err"), "terminated") EXCEPT !.doneCalls = Append(@, e)]
       ELSE LET m2 == [m1 EXCEPT !.statusCode = statusCode,
                                 !.monitoredItems = @ \cup {m1.clientHandle}]
            IN [Emit(m2, "initialized") EXCEPT !.doneCalls = Append(@, Null)]

\* the callback given to session.createMonitoredItems
createMonitoredItemsCallback(m, e, statusCode) ==
    LET m1 == [m EXCEPT !.responseErr = e, !.pc = "done"]
    IN IF e # Null
       THEN [Emit(Emit(m1, "err"), "terminated") EXCEPT !.doneCalls = Append(@, e)]
       ELSE LET m2 == [m1 EXCEPT !.statusCode = statusCode]
            IN IF statusCode = Good
               THEN [Emit([m2 EXCEPT !.monitoredItems = @ \cup {m2.clientHandle}],
                          "initialized")
                        EXCEPT !.doneCalls = Append(@, Null)]
               ELSE [Emit(Emit(m2, "err"), "terminated")
                        EXCEPT !.doneCalls = Append(@, statusCode)]

InitMonitor ==
    /\ eng = [e \in Engines |-> NewEngine]
    /\ sub \in InitSubs
    /\ cbCount = [r \in ReqIds |-> 0]
    /\ nextReq = 1
    /\ now = 1
    /\ err = "none"
    /\ mi \in {ClientMonitoredItem(a, f, h) :
                  a \in AttributeIds, f \in Filters, h \in 0..(MaxClientHandle - 1)}
    /\ fs = NotCreated
    /\ sm = NotCreated
    /\ arr = NotCreated
    /\ reg = NotCreated
    /\ nid = NotCreated

Monitor ==
    /\ mi.pc = "created"
    /\ mi' = _monitor(mi)
    /\ UNCHANGED <<engineVars, fs, sm, arr, reg, nid>>

CreateMonitoredItemsFails(e) ==
    /\ mi.pc = "waiting"
    /\ mi' = createMonitoredItemsCallback(mi, e, Null)
    /\ UNCHANGED <<engineVars, fs, sm, arr, reg, nid>>

CreateMonitoredItemsResponds(statusCode) ==
    /\ mi.pc = "waiting"
    /\ mi' = createMonitoredItemsCallback(mi, Null, statusCode)
    /\ UNCHANGED <<engineVars, fs, sm, arr, reg, nid>>

NextMonitor ==
    \/ Monitor
    \/ \E e \in TransportErrors : CreateMonitoredItemsFails(e)
    \/ \E statusCode \in ItemStatusCodes : CreateMonitoredItemsResponds(statusCode)

\* _monitor is called, and the session answers
SpecMonitor == InitMonitor /\ [][NextMonitor]_vars /\ WF_vars(NextMonitor)

\* the filter the item was created with does not go with its attribute
FilterMismatch(m) ==
    \/ m.attributeId = "EventNotifier" /\ m.given \notin {NoFilter, "EventFilter"}
    \/ m.attributeId \notin {"Value", "EventNotifier"} /\ m.given # NoFilter

MonitorOutcome ==
    /\ Len(mi.doneCalls) <= 1
    /\ Len(mi.doneCalls) = 1 <=> mi.pc = "done"
    /\ FilterMismatch(mi) => ~mi.requestSent /\ mi.events = <<>> /\ mi.monitoredItems = {}
    /\ (mi.pc = "done" /\ ~FilterMismatch(mi))
       => /\ mi.requestSent
          /\ IF mi.responseErr = Null /\ mi.statusCode = Good
             THEN /\ mi.events = <<"initialized">>
                  /\ mi.monitoredItems = {mi.clientHandle}
                  /\ mi.doneCalls = <<Null>>
             ELSE /\ mi.events = <<"err", "terminated">>
                  /\ mi.monitoredItems = {}
                  /\ mi.doneCalls # <<Null>>
    /\ mi.pc # "done" => mi.events = <<>> /\ mi.monitoredItems = {}

\* C34: _monitor(done) calls done exactly once on every path; the item is
\* registered with its subscription and "initialized" is emitted only when
\* the single result of the server is Good; on a transport error or another
\* status "err" and then "terminated" are emitted and the item is never
\* registered; when the filter does not go with the attribute (a filter
\* other than an EventFilter for EventNotifier, any filter for an attribute
\* other than Value and EventNotifier) no createMonitoredItems request is sent.
C34_MonitorCallsDoneOnce ==
    /\ []MonitorOutcome
    /\ <>(mi.pc = "done")

\* an item on EventNotifier created without filter got an EventFilter, was
\* refused by the server, and has emitted err and terminated
C34_Witness ==
    /\ mi.pc = "done"
    /\ mi.attributeId = "EventNotifier"
    /\ mi.given = NoFilter
    /\ mi.filter = "EventFilter"
    /\ mi.statusCode = "BadFilterNotAllowed"
    /\ mi.events = <<"err", "terminated">>
    /\ mi.doneCalls = <<"BadFilterNotAllowed">>


----------------------------------------------------------------------------
(* UAStateMachine (lib/address_space/extension_object_array_node.js).  The *)
(* address space holds at most one transition node per pair of states, as  *)
(* findTransitionNode asserts.                                             *)

\* the browse names of the state nodes of the machine
StateNames == {"Idle", "Running", "Halted"}

\* a name getStateByName does not find
UnknownState == "Unknown"

\* the pairs <<fromState, toState>> a transition node may join
TransitionPairs ==
    {<<"Idle", "Running">>, <<"Running", "Halted">>,
     <<"Halted", "Idle">>, <<"Running", "Running">>}

\* the value and status of the currentState variable
StateValue(dataType, text, statusCode) ==
    [dataType |-> dataType, text |-> text, statusCode |-> statusCode]

\* getStateByName(name)
getStateByName(m, name) == IF name \in StateNames THEN name ELSE Null

\* findTransitionNode(fromStateNode, toStateNode)
findTransitionNode(m, fromStateNode, toStateNode) ==
    IF fromStateNode = Null THEN Null
    ELSE IF <<fromStateNode, toStateNode>> \in m.transitions
    THEN <<fromStateNode, toStateNode>>
    ELSE Null

\* isValidTransition(toStateNode)
isValidTransition(m, toStateNode) ==
    IF m.currentStateNode = Null THEN TRUE
    ELSE findTransitionNode(m, m.currentStateNode, toStateNode) # Null

\* the machine after _post_initialize, the currentState variable having been
\* read Good with the text of a state or not Good
UAStateMachine(transitions, text) ==
    [pc |-> "ready",
     transitions |-> transitions,
     currentStateNode |-> text,
     currentState |-> IF text = Null
                      THEN StateValue("Null", Null, "BadStateNotActive")
                      ELSE StateValue("LocalizedText", text, Good),
     called |-> FALSE,                  \* setState has been called
     target |-> Null,                   \* the argument of the last call
     from |-> Null,                     \* the current state at the last call
     threw |-> FALSE,                   \* the last call threw
     raised |-> <<>>]                   \* the events the last call raised

\* setState that refuses a target isValidTransition rejects
setState_checked(m, toStateNode) ==
    LET m0 == [m EXCEPT !.called = TRUE, !.target = toStateNode,
                        !.from = m.currentStateNode,
                        !.threw = FALSE, !.raised = <<>>]
    IN IF toStateNode = Null
       THEN [m0 EXCEPT !.currentStateNode = Null,
                       !.currentState = StateValue("Null", Null, "BadStateNotActive")]
       ELSE IF getStateByName(m, toStateNode) = Null \/ ~isValidTransition(m, toStateNode)
       THEN [m0 EXCEPT !.threw = TRUE]
       ELSE LET transitionNode == findTransitionNode(m, m.currentStateNode, toStateNode)
                m1 == [m0 EXCEPT !.currentState =
                                     StateValue("LocalizedText", toStateNode, Good),
                                 !.currentStateNode = toStateNode]
            IN IF transitionNode # Null
               THEN [m1 EXCEPT !.raised =
                        <<[type |-> "TransitionEventType", transition |-> transitionNode,
                           fromState |-> m.currentStateNode, toState |-> toStateNode]>>]
               ELSE m1

\* setState(toStateNode), the target given by name
setState(m, toStateNode) ==
    LET m0 == [m EXCEPT !.called = TRUE, !.target = toStateNode,
                        !.from = m.currentStateNode,
                        !.threw = FALSE, !.raised = <<>>]
    IN IF toStateNode = Null
       THEN [m0 EXCEPT !.currentStateNode = Null,
                       !.currentState = StateValue("Null", Null, "BadStateNotActive")]
       ELSE IF getStateByName(m, toStateNode) = Null
       THEN [m0 EXCEPT !.threw = TRUE]
       ELSE LET fromStateNode == m.currentStateNode
                m1 == [m0 EXCEPT !.currentState =
                                     StateValue("LocalizedText", toStateNode, Good),
                                 !.currentStateNode = toStateNode]
                transitionNode == findTransitionNode(m1, fromStateNode, toStateNode)
            IN IF transitionNode # Null
               THEN [m1 EXCEPT !.raised =
                        <<[type |-> "TransitionEventType", transition |-> transitionNode,
                           fromState |-> fromStateNode, toState |-> toStateNode]>>]
               ELSE m1

InitStateMachine ==
    /\ eng = [e \in Engines |-> NewEngine]
    /\ sub \in InitSubs
    /\ cbCount = [r \in ReqIds |-> 0]
    /\ nextReq = 1
    /\ now = 1
    /\ err = "none"
    /\ sm \in {UAStateMachine(t, s) :
                  t \in SUBSET TransitionPairs, s \in StateNames \cup {Null}}
    /\ fs = NotCreated
    /\ mi = NotCreated
    /\ arr = NotCreated
    /\ reg = NotCreated
    /\ nid = NotCreated

SetState(toStateNode) ==
    /\ sm.pc = "ready"
    /\ sm' = setState(sm, toStateNode)
    /\ UNCHANGED <<engineVars, fs, mi, arr, reg, nid>>

NextStateMachine ==
    \/ \E name \in StateNames \cup {UnknownState} : SetState(name)
    \/ SetState(Null)

SpecStateMachine == InitStateMachine /\ [][NextStateMachine]_vars

\* C35: setState(target) with a target that resolves makes target the
\* current state whether or not isValidTransition accepts it, and raises a
\* TransitionEventType event exactly when a transition node from the
\* previous current state to target exists, never when there was no previous
\* state; setState(null) clears the current state and sets the currentState
\* variable to BadStateNotActive.
C35_SetState ==
    sm.called =>
        /\ sm.target \in StateNames
           => /\ ~sm.threw
              /\ sm.currentStateNode = sm.target
              /\ sm.currentState = StateValue("LocalizedText", sm.target, Good)
              /\ Len(sm.raised) = 1
                 <=> (sm.from # Null /\ <<sm.from, sm.target>> \in sm.transitions)
              /\ \A i \in 1..Len(sm.raised) :
                    /\ sm.raised[i].type = "TransitionEventType"
                    /\ sm.raised[i].fromState = sm.from
                    /\ sm.raised[i].toState = sm.target
        /\ sm.target = Null
           => /\ sm.currentStateNode = Null
              /\ sm.currentState.statusCode = "BadStateNotActive"
              /\ sm.raised = <<>>

\* setState moved the machine from Halted to Running, for which there is no
\* transition node although others exist, and raised no event
C35_Witness ==
    /\ sm.called
    /\ sm.from = "Halted"
    /\ sm.target = "Running"
    /\ sm.currentStateNode = "Running"
    /\ <<"Idle", "Running">> \in sm.transitions
    /\ sm.raised = <<>>


----------------------------------------------------------------------------
(* addElement and removeElement on an extension object array node          *)
(* (lib/address_space/extension_object_array_node.js).  An extension       *)
(* object is identified by the value of its index property, which is the   *)
(* browse name of its component; deleteNode is open to every user of the   *)
(* address space.                                                          *)

\* the values of the index property
ElementNames == {"el1", "el2", "el3"}

\* the array node createExtObjArrayNode returns
createExtObjArrayNode ==
    [pc |-> "ready",
     value |-> <<>>,                    \* arr._dataValue.value.value
     components |-> {},                 \* browse names of the components of arr
     op |-> "none",                     \* the last call
     before |-> <<>>,                   \* the array value when it began
     browseName |-> Null,               \* the browse name removeElement worked on
     byName |-> FALSE,                  \* the element was given as a node
     threw |-> FALSE]                   \* the last call threw

\* _array.splice(elementIndex, 1), elementIndex counted from 0
Splice(array, elementIndex) ==
    [i \in 1..(Len(array) - 1) |->
        IF i <= elementIndex THEN array[i] ELSE array[i + 1]]

\* _array.findIndex(obj => $$getElementBrowseName(obj) === browseNameToFind)
FindIndex(array, browseNameToFind) ==
    IF \E i \in 1..Len(array) : array[i] = browseNameToFind
    THEN (CHOOSE i \in 1..Len(array) :
             /\ array[i] = browseNameToFind
             /\ \A j \in 1..(i - 1) : array[j] # browseNameToFind) - 1
    ELSE -1

\* addElement(options, arr)
addElement(a, name) ==
    [a EXCEPT !.op = "addElement", !.before = a.value, !.browseName = name,
              !.byName = FALSE, !.threw = FALSE,
              !.components = @ \cup {name},
              !.value = Append(@, name)]

\* addressSpace.deleteNode(node.nodeId) for a component of arr
deleteNode(a, name) ==
    [a EXCEPT !.components = @ \ {name}]

\* the part of removeElement that follows the choice of elementIndex
RemoveAt(a, elementIndex) ==
    LET browseName == a.value[elementIndex + 1]
        a1 == [a EXCEPT !.browseName = browseName,
                        !.value = Splice(@, elementIndex)]
    IN IF browseName \notin a1.components
       THEN [a1 EXCEPT !.threw = TRUE]
       ELSE deleteNode(a1, browseName)

\* removeElement(arr, elementIndex), elementIndex a number
removeElementAt(a, elementIndex) ==
    LET a0 == [a EXCEPT !.op = "removeElement", !.before = a.value,
                        !.browseName = Null, !.byName = FALSE, !.threw = FALSE]
    IN IF ~(elementIndex >= 0 /\ elementIndex < Len(a.value))
       THEN [a0 EXCEPT !.threw = TRUE]
       ELSE RemoveAt(a0, elementIndex)

\* removeElement(arr, element), element a node with a browse name
removeElementNamed(a, browseNameToFind) ==
    LET a0 == [a EXCEPT !.op = "removeElement", !.before = a.value,
                        !.browseName = Null, !.byName = TRUE, !.threw = FALSE]
        elementIndex == FindIndex(a.value, browseNameToFind)
    IN IF elementIndex < 0
       THEN [a0 EXCEPT !.threw = TRUE]
       ELSE RemoveAt(a0, elementIndex)

InitArray ==
    /\ eng = [e \in Engines |-> NewEngine]
    /\ sub \in InitSubs
    /\ cbCount = [r \in ReqIds |-> 0]
    /\ nextReq = 1
    /\ now = 1
    /\ err = "none"
    /\ arr = createExtObjArrayNode
    /\ fs = NotCreated
    /\ mi = NotCreated
    /\ sm = NotCreated
    /\ reg = NotCreated
    /\ nid = NotCreated

AddElement(name) ==
    /\ arr.pc = "ready"
    /\ name \notin arr.components
    /\ \A i \in 1..Len(arr.value) : arr.value[i] # name
    /\ arr' = addElement(arr, name)
    /\ UNCHANGED <<engineVars, fs, mi, sm, reg, nid>>

RemoveElementAt(elementIndex) ==
    /\ arr.pc = "ready"
    /\ arr' = removeElementAt(arr, elementIndex)
    /\ UNCHANGED <<engineVars, fs, mi, sm, reg, nid>>

RemoveElementNamed(name) ==
    /\ arr.pc = "ready"
    /\ arr' = removeElementNamed(arr, name)
    /\ UNCHANGED <<engineVars, fs, mi, sm, reg, nid>>

\* another user of the address space deletes a component of arr
DeleteNode(name) ==
    /\ arr.pc = "ready"
    /\ name \in arr.components
    /\ arr' = [deleteNode(arr, name) EXCEPT !.op = "deleteNode", !.before = arr.value,
                                            !.browseName = name, !.byName = FALSE,
                                            !.threw = FALSE]
    /\ UNCHANGED <<engineVars, fs, mi, sm, reg, nid>>

NextArray ==
    \/ \E name \in ElementNames : AddElement(name)
    \/ \E elementIndex \in 0..Cardinality(ElementNames) : RemoveElementAt(elementIndex)
    \/ \E name \in ElementNames : RemoveElementNamed(name)
    \/ \E name \in ElementNames : DeleteNode(name)

SpecArray == InitArray /\ [][NextArray]_vars

\* C36: removeElement either removes both the extension object from the
\* array value and its matching component node, or fails and leaves the
\* array value unchanged: when no component with the browse name of the
\* element exists it throws without having modified the array.
C36_RemoveElementAllOrNothing ==
    arr.op = "removeElement" =>
        IF arr.threw
        THEN arr.value = arr.before
        ELSE /\ Len(arr.value) = Len(arr.before) - 1
             /\ arr.browseName \notin arr.components


----------------------------------------------------------------------------
(* ObjectRegistry (unnamed/part_003)                                       *)

\* the registries of the process
Registries == {"registryA", "registryB"}

\* the objects given to register and unregister
Objects == {"o1", "o2", "o3"}

NoRegistry == "none"

\* hashCounter = 1, new ObjectRegistry() for each registry, and objects
\* without _____hash
NewRegistries ==
    [pc |-> "ready",
     hashCounter |-> 1,
     hash |-> [o \in Objects |-> 0],            \* obj._____hash, 0 for undefined
     cache |-> [r \in Registries |-> << >>],    \* registry._cache: hash -> object
     last |-> [o \in Objects |-> NoRegistry]]   \* the registry of the last register
                                                \* call not followed by unregister

\* delete cache[key]
Delete(cache, key) == [k \in (DOMAIN cache) \ {key} |-> cache[k]]

\* cache[key] = obj
Put(cache, key, obj) ==
    [k \in (DOMAIN cache) \cup {key} |-> IF k = key THEN obj ELSE cache[k]]

\* registry.register(obj)
register(g, r, obj) ==
    LET g1 == IF g.hash[obj] = 0
              THEN [g EXCEPT !.hash[obj] = g.hashCounter,
                             !.hashCounter = @ + 1,
                             !.cache[r] = Put(@, g.hashCounter, obj)]
              ELSE g
    IN [g1 EXCEPT !.last[obj] = r]

\* registry.unregister(obj)
unregister(g, r, obj) ==
    [g EXCEPT !.cache[r] = Delete(@, g.hash[obj]),
              !.last[obj] = IF @ = r THEN NoRegistry ELSE @]

\* registry.count()
count(g, r) == Cardinality(DOMAIN g.cache[r])

InitRegistry ==
    /\ eng = [e \in Engines |-> NewEngine]
    /\ sub \in InitSubs
    /\ cbCount = [r \in ReqIds |-> 0]
    /\ nextReq = 1
    /\ now = 1
    /\ err = "none"
    /\ reg = NewRegistries
    /\ fs = NotCreated
    /\ mi = NotCreated
    /\ sm = NotCreated
    /\ arr = NotCreated
    /\ nid = NotCreated

Register(r, obj) ==
    /\ reg.pc = "ready"
    /\ reg' = register(reg, r, obj)
    /\ UNCHANGED <<engineVars, fs, mi, sm, arr, nid>>

Unregister(r, obj) ==
    /\ reg.pc = "ready"
    /\ reg' = unregister(reg, r, obj)
    /\ UNCHANGED <<engineVars, fs, mi, sm, arr, nid>>

NextRegistry ==
    \/ \E r \in Registries, obj \in Objects : Register(r, obj)
    \/ \E r \in Registries, obj \in Objects : Unregister(r, obj)

SpecRegistry == InitRegistry /\ [][NextRegistry]_vars

\* C37: count() of a registry always equals the number of distinct objects
\* registered with it and not unregistered since their last register call:
\* an object registered again after unregister, or registered with a second
\* registry after a first, is counted by the registry it was last registered
\* with.
C37_CountIsRegistered ==
    \A r \in Registries :
        count(reg, r) = Cardinality({o \in Objects : reg.last[o] = r})


----------------------------------------------------------------------------
(* The binary encoding of a numeric NodeId (unnamed/part_004).  A number   *)
(* of up to 32 bits is held as its two 16 bit halves, hi and lo.  The      *)
(* stream is the sequence of the bytes written, integers little-endian as  *)
(* BinaryStream writes them; makeNodeId(value, namespace) takes namespace  *)
(* 0 when none is given.                                                   *)

\* the unsigned number hi * 2^16 + lo
UInt(hi, lo) == [hi |-> hi, lo |-> lo]

\* nodeId.value, around the limits of one, two and four bytes: 0, 1, 0xFF,
\* 0x100, 0x1234, 0xFFFF, 0x10000, 0x12345678, 0x80000000, 0xFFFFFFFF
NodeIdValues ==
    {UInt(0, 0), UInt(0, 1), UInt(0, 255), UInt(0, 256), UInt(0, 4660),
     UInt(0, 65535), UInt(1, 0), UInt(4660, 22136), UInt(32768, 0),
     UInt(65535, 65535)}

\* nodeId.namespace, around the limits of one and two bytes
NodeIdNamespaces ==
    {UInt(0, 0), UInt(0, 1), UInt(0, 255), UInt(0, 256), UInt(0, 65535)}

EnumNodeIdEncoding ==
    [TwoBytes |-> 0, FourBytes |-> 1, Numeric |-> 2, String |-> 3, Guid |-> 4,
     ByteString |-> 5, NamespaceUriFlag |-> 128, ServerIndexFlag |-> 64]

\* namespace left undefined by _decodeNodeId
NoNamespace == UInt(-1, -1)

is_uint8(value) == value.hi = 0 /\ value.lo >= 0 /\ value.lo <= 255

is_uint16(value) == value.hi = 0 /\ value.lo >= 0 /\ value.lo <= 65535

\* stream.writeUInt8(value)
writeUInt8(stream, value) == Append(stream, value.lo % 256)

\* stream.writeUInt16(value)
writeUInt16(stream, value) ==
    stream \o <<value.lo % 256, value.lo \div 256>>

\* stream.writeUInt32(value)
writeUInt32(stream, value) ==
    stream \o <<value.lo % 256, value.lo \div 256,
                value.hi % 256, value.hi \div 256>>

\* stream.readUInt8() at position pos
readUInt8(stream, pos) == UInt(0, stream[pos])

\* stream.readUInt16() at position pos
readUInt16(stream, pos) == UInt(0, stream[pos] + 256 * stream[pos + 1])

\* stream.readUInt32() at position pos
readUInt32(stream, pos) ==
    UInt(stream[pos + 2] + 256 * stream[pos + 3], stream[pos] + 256 * stream[pos + 1])

\* makeNodeId(value, namespace)
makeNodeId(value, namespace) ==
    [value |-> value,
     namespace |-> IF namespace = NoNamespace THEN UInt(0, 0) ELSE namespace]

\* nodeID_encodingByte that takes the four byte form for every 16 bit value
nodeID_encodingByte_anyNamespace(nodeId) ==
    IF is_uint8(nodeId.value) /\ nodeId.namespace = UInt(0, 0)
    THEN EnumNodeIdEncoding.TwoBytes
    ELSE IF is_uint16(nodeId.value)
    THEN EnumNodeIdEncoding.FourBytes
    ELSE EnumNodeIdEncoding.Numeric

\* nodeID_encodingByte(nodeId) for a numeric NodeId without namespaceUri and
\* serverIndex
nodeID_encodingByte(nodeId) ==
    IF is_uint8(nodeId.value) /\ nodeId.namespace = UInt(0, 0)
    THEN EnumNodeIdEncoding.TwoBytes
    ELSE IF is_uint16(nodeId.value) /\ is_uint8(nodeId.namespace)
    THEN EnumNodeIdEncoding.FourBytes
    ELSE EnumNodeIdEncoding.Numeric

\* _encodeNodeId(encoding_byte, nodeId, stream)
_encodeNodeId(encoding_byte, nodeId, stream) ==
    LET s == writeUInt8(stream, UInt(0, encoding_byte))
        b == encoding_byte % 64
    IN IF b = EnumNodeIdEncoding.TwoBytes
       THEN writeUInt8(s, nodeId.value)
       ELSE IF b = EnumNodeIdEncoding.FourBytes
       THEN writeUInt16(writeUInt8(s, nodeId.namespace), nodeId.value)
       ELSE writeUInt32(writeUInt16(s, nodeId.namespace), nodeId.value)

\* encodeNodeId(nodeId, stream)
encodeNodeId(nodeId, stream) ==
    _encodeNodeId(nodeID_encodingByte(nodeId) % 64, nodeId, stream)

\* _decodeNodeId(encoding_byte, stream), the stream read from position pos
_decodeNodeId(encoding_byte, stream, pos) ==
    LET b == encoding_byte % 64
    IN IF b = EnumNodeIdEncoding.TwoBytes
       THEN makeNodeId(readUInt8(stream, pos), NoNamespace)
       ELSE IF b = EnumNodeIdEncoding.FourBytes
       THEN makeNodeId(readUInt16(stream, pos + 1), readUInt8(stream, pos))
       ELSE makeNodeId(readUInt32(stream, pos + 2), readUInt16(stream, pos))

\* decodeNodeId(stream)
decodeNodeId(stream) == _decodeNodeId(readUInt8(stream, 1).lo, stream, 2)

InitNodeId ==
    /\ eng = [e \in Engines |-> NewEngine]
    /\ sub \in InitSubs
    /\ cbCount = [r \in ReqIds |-> 0]
    /\ nextReq = 1
    /\ now = 1
    /\ err = "none"
    /\ nid \in {[pc |-> "created", nodeId |-> makeNodeId(v, n), stream |-> <<>>,
                 decoded |-> makeNodeId(UInt(0, 0), UInt(0, 0))] :
                    v \in NodeIdValues, n \in NodeIdNamespaces}
    /\ fs = NotCreated
    /\ mi = NotCreated
    /\ sm = NotCreated
    /\ arr = NotCreated
    /\ reg = NotCreated

EncodeNodeId ==
    /\ nid.pc = "created"
    /\ nid' = [nid EXCEPT !.pc = "encoded", !.stream = encodeNodeId(nid.nodeId, <<>>)]
    /\ UNCHANGED <<engineVars, fs, mi, sm, arr, reg>>

DecodeNodeId ==
    /\ nid.pc = "encoded"
    /\ nid' = [nid EXCEPT !.pc = "decoded", !.decoded = decodeNodeId(nid.stream)]
    /\ UNCHANGED <<engineVars, fs, mi, sm, arr, reg>>

NextNodeId ==
    \/ EncodeNodeId
    \/ DecodeNodeId

SpecNodeId == InitNodeId /\ [][NextNodeId]_vars

\* C38: for every numeric NodeId with 0 <= value <= 0xFFFFFFFF and
\* 0 <= namespace <= 0xFFFF, nodeID_encodingByte selects TwoBytes only if
\* value <= 0xFF and namespace is 0, FourBytes only if value <= 0xFFFF and
\* namespace <= 0xFF, and Numeric otherwise, and decodeNodeId applied to the
\* bytes written by encodeNodeId yields a NodeId with the same value and the
\* same namespace.
C38_NodeIdRoundTrip ==
    LET encodingByte == nodeID_encodingByte(nid.nodeId)
        value == nid.nodeId.value
        namespace == nid.nodeId.namespace
        small == value.hi = 0 /\ value.lo <= 255 /\ namespace = UInt(0, 0)
        medium == value.hi = 0 /\ namespace.hi = 0 /\ namespace.lo <= 255
    IN /\ encodingByte = EnumNodeIdEncoding.TwoBytes => small
       /\ encodingByte = EnumNodeIdEncoding.FourBytes => medium
       /\ ~small /\ ~medium => encodingByte = EnumNodeIdEncoding.Numeric
       /\ encodingByte \in {EnumNodeIdEncoding.TwoBytes, EnumNodeIdEncoding.FourBytes,
                            EnumNodeIdEncoding.Numeric}
       /\ nid.pc \in {"encoded", "decoded"} => nid.stream[1] = encodingByte
       /\ nid.pc = "decoded" => nid.decoded = nid.nodeId

\* the NodeId ns=255;i=65535 was written in the four byte form, as the bytes
\* 1, 255, 255, 255, and read back
C38_Witness ==
    /\ nid.pc = "decoded"
    /\ nid.nodeId = makeNodeId(UInt(0, 65535), UInt(0, 255))
    /\ nid.stream = <<1, 255, 255, 255>>
    /\ nid.decoded = makeNodeId(UInt(0, 65535), UInt(0, 255))

====
